---------------------------- MODULE Spec2Model ----------------------------
(***************************************************************************)
(* Model of the crypto_dashboard backend: the wallet transaction handlers  *)
(* and the holdings recomputation (src/api/wallet.py, src/utils/db.py),    *)
(* and the market data gateway with its read-through cache                 *)
(* (src/utils/helpers.py, src/config.py).                                  *)
(*                                                                         *)
(* Numbers are Python floats in the source.  The model computes with exact *)
(* rationals <<n, d>> (d > 0, lowest terms), so float rounding error is    *)
(* not part of it.  Symbols are sequences of one-character strings, so     *)
(* that lower(), upper() and endswith() are computed, not looked up.       *)
(***************************************************************************)
EXTENDS Integers, Sequences, FiniteSets, TLC

VARIABLES
    wallet_transactions,  \* collection db.wallet_transactions, in insertion order
    wallet_holdings,      \* collection db.wallet_holdings, keyed by symbol
    cache_collection,     \* collection db.cache, keyed by symbol
    prices_collection,    \* collection db.prices, keyed by symbol and date
    now,                  \* datetime.now(), in minutes
    next_id,              \* the next ObjectId the store hands out
    proc,                 \* the running wallet request handlers
    replay,               \* one run of update_wallet_holdings, loop by loop
    gw                    \* one run of DataFetcher.get_asset_data, attempt by attempt

vars == <<wallet_transactions, wallet_holdings, cache_collection,
          prices_collection, now, next_id, proc, replay, gw>>

-----------------------------------------------------------------------------
(* Exact rational arithmetic standing for Python float arithmetic.         *)

Abs(x) == IF x < 0 THEN -x ELSE x

RECURSIVE GCD(_, _)
GCD(a, b) == IF b = 0 THEN a ELSE GCD(b, a % b)

RNorm(n, d) ==
    LET s == IF d < 0 THEN -1 ELSE 1
        g == GCD(Abs(n), Abs(d))
    IN  IF n = 0 THEN <<0, 1>> ELSE <<(s * n) \div g, (s * d) \div g>>

R(i) == <<i, 1>>
RAdd(a, b) == RNorm(a[1] * b[2] + b[1] * a[2], a[2] * b[2])
RSub(a, b) == RNorm(a[1] * b[2] - b[1] * a[2], a[2] * b[2])
RMul(a, b) == RNorm(a[1] * b[1], a[2] * b[2])
RDiv(a, b) == RNorm(a[1] * b[2], a[2] * b[1])
RLeq(a, b) == a[1] * b[2] <= b[1] * a[2]
RLt(a, b) == a[1] * b[2] < b[1] * a[2]
RGeq(a, b) == RLeq(b, a)
RGt(a, b) == RLt(b, a)
Zero == R(0)

-----------------------------------------------------------------------------
(* Strings: str.lower(), str.upper(), str.endswith().                      *)

UpperLetters == <<"A","B","C","D","E","F","G","H","I","J","K","L","M",
                  "N","O","P","Q","R","S","T","U","V","W","X","Y","Z">>
LowerLetters == <<"a","b","c","d","e","f","g","h","i","j","k","l","m",
                  "n","o","p","q","r","s","t","u","v","w","x","y","z">>

UpperSet == {UpperLetters[i] : i \in DOMAIN UpperLetters}
LowerSet == {LowerLetters[i] : i \in DOMAIN LowerLetters}

LowerMap ==
    [c \in UpperSet |->
        LowerLetters[CHOOSE i \in DOMAIN UpperLetters : UpperLetters[i] = c]]
UpperMap ==
    [c \in LowerSet |->
        UpperLetters[CHOOSE i \in DOMAIN LowerLetters : LowerLetters[i] = c]]

LowerChar(c) == IF c \in UpperSet THEN LowerMap[c] ELSE c
UpperChar(c) == IF c \in LowerSet THEN UpperMap[c] ELSE c

Lower(s) == [i \in DOMAIN s |-> LowerChar(s[i])]
Upper(s) == [i \in DOMAIN s |-> UpperChar(s[i])]

EndsWith(s, suffix) ==
    /\ Len(s) >= Len(suffix)
    /\ SubSeq(s, Len(s) - Len(suffix) + 1, Len(s)) = suffix

-----------------------------------------------------------------------------
(* Documents of the store.                                                 *)

\* find_one found nothing / the document has no such fields.
NoDoc == [nodoc |-> TRUE]
NoValue == [novalue |-> TRUE]

BTC == <<"b","i","t","c","o","i","n">>
ETH == <<"e","t","h","e","r","e","u","m">>

\* A transaction document as add_transaction builds it (notes and created_at
\* take no part in any computation and are left out).
\* The request body is t (a WalletTransaction).
TxDoc(id, t) ==
    [_id |-> id, symbol |-> Lower(t.symbol), asset_type |-> t.asset_type,
     transaction_type |-> t.transaction_type, quantity |-> t.quantity,
     price_per_unit |-> t.price_per_unit, total_value |-> t.total_value,
     date |-> t.date]

-----------------------------------------------------------------------------
(* update_wallet_holdings: the replay.                                     *)

\* The running totals before the loop.
ReplayStart ==
    [total_quantity |-> Zero, total_invested |-> Zero, weighted_price_sum |-> Zero]

ApplyBuyByTotalValue(st, tx) ==
    [total_quantity |-> RAdd(st.total_quantity, tx.quantity),
     total_invested |-> RAdd(st.total_invested, tx.total_value),
     weighted_price_sum |-> RAdd(st.weighted_price_sum, tx.total_value)]

\* The "buy" branch of the loop body.
ApplyBuy(st, tx) ==
    [total_quantity |-> RAdd(st.total_quantity, tx.quantity),
     total_invested |-> RAdd(st.total_invested, tx.total_value),
     weighted_price_sum |->
         RAdd(st.weighted_price_sum, RMul(tx.quantity, tx.price_per_unit))]

ApplySellUnguarded(st, tx) ==
    LET avg_cost == IF RGt(st.total_quantity, Zero)
                    THEN RDiv(st.weighted_price_sum, st.total_quantity)
                    ELSE Zero
        cost_of_sold == RMul(avg_cost, tx.quantity)
    IN  [total_quantity |-> RSub(st.total_quantity, tx.quantity),
         total_invested |-> RSub(st.total_invested, cost_of_sold),
         weighted_price_sum |->
             RSub(st.weighted_price_sum, RMul(avg_cost, tx.quantity))]

ApplySellAtSalePrice(st, tx) ==
    IF RGeq(st.total_quantity, tx.quantity)
    THEN LET cost_of_sold == RMul(tx.price_per_unit, tx.quantity)
         IN  [total_quantity |-> RSub(st.total_quantity, tx.quantity),
              total_invested |-> RSub(st.total_invested, cost_of_sold),
              weighted_price_sum |-> RSub(st.weighted_price_sum, cost_of_sold)]
    ELSE st

ApplySellWhatIsHeld(st, tx) ==
    IF RGeq(st.total_quantity, tx.quantity)
    THEN LET avg_cost == IF RGt(st.total_quantity, Zero)
                         THEN RDiv(st.weighted_price_sum, st.total_quantity)
                         ELSE Zero
             cost_of_sold == RMul(avg_cost, tx.quantity)
         IN  [total_quantity |-> RSub(st.total_quantity, tx.quantity),
              total_invested |-> RSub(st.total_invested, cost_of_sold),
              weighted_price_sum |->
                  RSub(st.weighted_price_sum, RMul(avg_cost, tx.quantity))]
    ELSE [total_quantity |-> Zero, total_invested |-> Zero,
          weighted_price_sum |-> Zero]

\* The "sell" branch of the loop body; an oversell only logs a warning.
ApplySell(st, tx) ==
    IF RGeq(st.total_quantity, tx.quantity)
    THEN LET avg_cost == IF RGt(st.total_quantity, Zero)
                         THEN RDiv(st.weighted_price_sum, st.total_quantity)
                         ELSE Zero
             cost_of_sold == RMul(avg_cost, tx.quantity)
         IN  [total_quantity |-> RSub(st.total_quantity, tx.quantity),
              total_invested |-> RSub(st.total_invested, cost_of_sold),
              weighted_price_sum |->
                  RSub(st.weighted_price_sum, RMul(avg_cost, tx.quantity))]
    ELSE st

\* One iteration of "for tx in transactions".
ApplyTx(st, tx) ==
    IF tx.transaction_type = "buy" THEN ApplyBuy(st, tx)
    ELSE IF tx.transaction_type = "sell" THEN ApplySell(st, tx)
    ELSE st

\* The totals after the loop has run over txs[1..k].
RECURSIVE ReplayPrefix(_, _)
ReplayPrefix(txs, k) ==
    IF k = 0 THEN ReplayStart ELSE ApplyTx(ReplayPrefix(txs, k - 1), txs[k])

\* average_buy_price, computed after the loop.
AverageBuyPrice(st) ==
    IF RGt(st.total_quantity, Zero)
    THEN RDiv(st.weighted_price_sum, st.total_quantity)
    ELSE Zero

HoldingDocMidReplay(symbol, txs, st) ==
    LET mid == ReplayPrefix(txs, 1)
    IN  [symbol |-> Lower(symbol),
         asset_type |-> txs[1].asset_type,
         total_quantity |-> mid.total_quantity,
         average_buy_price |-> AverageBuyPrice(mid),
         total_invested |-> mid.total_invested,
         first_purchase_date |-> txs[1].date]

HoldingDocOfLatest(symbol, txs, st) ==
    [symbol |-> Lower(symbol),
     asset_type |-> txs[Len(txs)].asset_type,
     total_quantity |-> st.total_quantity,
     average_buy_price |-> AverageBuyPrice(st),
     total_invested |-> st.total_invested,
     first_purchase_date |-> txs[Len(txs)].date]

\* holding_doc (updated_at, the time of the recompute, is left out).
HoldingDoc(symbol, txs, st) ==
    [symbol |-> Lower(symbol),
     asset_type |-> txs[1].asset_type,
     total_quantity |-> st.total_quantity,
     average_buy_price |-> AverageBuyPrice(st),
     total_invested |-> st.total_invested,
     first_purchase_date |-> txs[1].date]

\* The fields holding_doc sets.
HoldingFields ==
    {"symbol", "asset_type", "total_quantity", "average_buy_price",
     "total_invested", "first_purchase_date"}

\* update_one({"symbol": symbol.lower()}, {"$set": holding_doc}, upsert=True):
\* an existing document keeps the fields $set does not name.
UpdateHolding(holdings, symbol, holding_doc) ==
    LET key == Lower(symbol)
        old == holdings[key]
    IN  [holdings EXCEPT ![key] =
            IF old = NoDoc
            THEN holding_doc @@ [valuation |-> NoValue]
            ELSE [f \in DOMAIN old |->
                    IF f \in HoldingFields THEN holding_doc[f] ELSE old[f]]]

ZeroHolding(holdings, symbol) ==
    LET key == Lower(symbol)
    IN  [holdings EXCEPT ![key] =
            IF @ = NoDoc THEN @
            ELSE [@ EXCEPT !.total_quantity = Zero, !.average_buy_price = Zero,
                           !.total_invested = Zero]]

\* delete_one({"symbol": symbol.lower()}).
DeleteHolding(holdings, symbol) ==
    [holdings EXCEPT ![Lower(symbol)] = NoDoc]

-----------------------------------------------------------------------------
(* Config (src/config.py).                                                 *)

CACHE_EXPIRY_MINUTES == 10

DOGE == <<"d","o","g","e","c","o","i","n">>
CRYPTO_SYMBOLS == {BTC, ETH, DOGE}

PETR4_SA == <<"P","E","T","R","4",".","S","A">>
STOCK_SYMBOLS ==
    {<<"B","B","A","S","3",".","S","A">>,
     <<"P","E","T","R","4",".","S","A">>,
     <<"S","A","P","R","1","1",".","S","A">>,
     <<"C","M","I","G","4",".","S","A">>,
     <<"V","A","L","E","3",".","S","A">>,
     <<"R","O","X","O","3","4",".","S","A">>}

KNCR11_SA == <<"K","N","C","R","1","1",".","S","A">>
FII_SYMBOLS ==
    {<<"K","N","C","R","1","1",".","S","A">>,
     <<"G","A","R","E","1","1",".","S","A">>,
     <<"M","X","R","F","1","1",".","S","A">>,
     <<"X","P","M","L","1","1",".","S","A">>,
     <<"V","I","S","C","1","1",".","S","A">>,
     <<"B","T","L","G","1","1",".","S","A">>}

-----------------------------------------------------------------------------
(* DatabaseManager: the price cache (src/utils/helpers.py).                *)

\* None, as a fetch returns it.
NoData == [nodata |-> TRUE]
\* An exception leaving the function (no function of the gateway lets one out).
Raised == [raised |-> TRUE]

GetCachedDataUntilExpiry(cache, symbol, t, read_ok) ==
    IF ~read_ok THEN NoData
    ELSE IF symbol \in DOMAIN cache /\ cache[symbol].expires_at >= t
         THEN cache[symbol].data
         ELSE NoData

\* get_cached_data: the entry under symbol whose expires_at is after now; the
\* except branch returns None.
GetCachedData(cache, symbol, t, read_ok) ==
    IF ~read_ok THEN NoData
    ELSE IF symbol \in DOMAIN cache /\ cache[symbol].expires_at > t
         THEN cache[symbol].data
         ELSE NoData

\* save_price_data: replace_one({"symbol": symbol}, document, upsert=True); the
\* except branch returns False and the caller does not look at it.
SavePriceData(cache, symbol, data, asset_type, t, write_ok) ==
    IF write_ok
    THEN (symbol :> [symbol |-> symbol, asset_type |-> asset_type, data |-> data,
                     timestamp |-> t, expires_at |-> t + CACHE_EXPIRY_MINUTES])
         @@ cache
    ELSE cache

-----------------------------------------------------------------------------
(* DataFetcher (src/utils/helpers.py).  A fetch is given the store it reads *)
(* (cache, prices), the time t and what the outside does during it:        *)
(* o.read_ok and o.write_ok (whether the store's read and writes succeed)  *)
(* and o.upstream, the provider's answer:                                  *)
(*   [kind |-> "raise"]            network error, timeout, HTTP error      *)
(*   [kind |-> "absent"]           CoinGecko's answer lacks the id         *)
(*   [kind |-> "quote", usd, usd_24h_change]                               *)
(*   [kind |-> "chart", prices]    CoinGecko market_chart, <<ts, price>>   *)
(*   [kind |-> "hist", rows]       yfinance history, [date, close]         *)
(* It returns the data (or NoData), the store after it and the requests it *)
(* sent, each <<provider, id>>.                                            *)

\* "except Exception as e: ... return None", the handler of both fetchers.
OnExceptionPropagate == Raised

OnException == NoData

\* ((current - previous) / previous) * 100; float division by zero raises.
PercentChange(current, previous) ==
    RMul(RDiv(RSub(current, previous), previous), R(100))

Last(seq) == seq[Len(seq)]

\* hist.tail(days) if len(hist) > days else hist
TailRows(seq, days) ==
    IF Len(seq) > days THEN SubSeq(seq, Len(seq) - days + 1, Len(seq)) ELSE seq

IsBrazilianAsset(symbol) == EndsWith(Upper(symbol), <<".","S","A">>)

CurrencyCode(symbol) == IF IsBrazilianAsset(symbol) THEN "BRL" ELSE "USD"

ChecksCacheAlways(days) == days >= 1

\* "if days == 1:" before get_cached_data, the same in both fetchers.
ChecksCache(days) == days = 1

\* fetch_crypto_data(symbol, days)
FetchCryptoData(symbol, days, cache, prices, t, o) ==
    LET cached == IF ChecksCache(days)
                  THEN GetCachedData(cache, symbol, t, o.read_ok)
                  ELSE NoData
        req == <<"coingecko", symbol>>
        up == o.upstream
        none == [data |-> NoData, cache |-> cache, prices |-> prices,
                 requests |-> <<req>>]
    IN  IF cached # NoData
        THEN [data |-> cached, cache |-> cache, prices |-> prices,
              requests |-> <<>>]
        ELSE IF up.kind = "raise"
        THEN [none EXCEPT !.data = OnException]
        ELSE IF days = 1
        THEN IF up.kind = "absent"
             THEN none
             ELSE LET result ==
                         [symbol |-> symbol, current_price |-> up.usd,
                          price_change_24h |-> up.usd_24h_change,
                          asset_type |-> "cryptocurrency", currency |-> "USD"]
                  IN  [data |-> result,
                       cache |-> SavePriceData(cache, symbol, result,
                                               "cryptocurrency", t, o.write_ok),
                       prices |-> prices, requests |-> <<req>>]
        ELSE IF up.prices = <<>>
        THEN none
        ELSE LET current_price == Last(up.prices)[2]
                 price_24h_ago == up.prices[Len(up.prices) - 1][2]
             IN  IF Len(up.prices) >= 2 /\ price_24h_ago = Zero
                 THEN [none EXCEPT !.data = OnException]
                 ELSE [data |->
                          [symbol |-> symbol, prices |-> up.prices,
                           current_price |-> current_price,
                           price_change_24h |->
                               IF Len(up.prices) >= 2
                               THEN PercentChange(current_price, price_24h_ago)
                               ELSE Zero,
                           asset_type |-> "cryptocurrency", currency |-> "USD"],
                       cache |-> cache, prices |-> prices, requests |-> <<req>>]

\* save_historical_data: one replace_one per row, keyed by symbol and date
\* (the rows of one history have different dates); the except branch returns
\* False.  A failure is taken at the first row.
SaveHistoricalData(prices, symbol, rows, write_ok) ==
    IF write_ok
    THEN [k \in {<<symbol, rows[i].date>> : i \in DOMAIN rows} |->
             rows[CHOOSE i \in DOMAIN rows : rows[i].date = k[2]].close]
         @@ prices
    ELSE prices

\* fetch_stock_data(symbol, days)
FetchStockData(symbol, days, cache, prices, t, o) ==
    LET cached == IF ChecksCache(days)
                  THEN GetCachedData(cache, symbol, t, o.read_ok)
                  ELSE NoData
        req == <<"yfinance", symbol>>
        up == o.upstream
        none == [data |-> NoData, cache |-> cache, prices |-> prices,
                 requests |-> <<req>>]
    IN  IF cached # NoData
        THEN [data |-> cached, cache |-> cache, prices |-> prices,
              requests |-> <<>>]
        ELSE IF up.kind = "raise"
        THEN [none EXCEPT !.data = OnException]
        ELSE IF days = 1
        THEN IF Len(up.rows) < 2
             THEN none
             ELSE LET current_price == Last(up.rows).close
                      previous_price == up.rows[Len(up.rows) - 1].close
                  IN  IF previous_price = Zero
                      THEN [none EXCEPT !.data = OnException]
                      ELSE LET result ==
                                  [symbol |-> symbol,
                                   current_price |-> current_price,
                                   price_change_24h |->
                                       PercentChange(current_price, previous_price),
                                   asset_type |-> "stock",
                                   currency |-> CurrencyCode(symbol)]
                           IN  [data |-> result,
                                cache |-> SavePriceData(cache, symbol, result,
                                                        "stock", t, o.write_ok),
                                prices |-> prices, requests |-> <<req>>]
        ELSE IF up.rows = <<>>
        THEN none
        ELSE LET hist == TailRows(up.rows, days)
                 current_price == Last(hist).close
             IN  IF Len(hist) >= 2 /\ hist[Len(hist) - 1].close = Zero
                 THEN [none EXCEPT !.data = OnException]
                 ELSE [data |->
                          [symbol |-> symbol,
                           prices |-> [i \in DOMAIN hist |->
                                          <<hist[i].date, hist[i].close>>],
                           current_price |-> current_price,
                           price_change_24h |->
                               IF Len(hist) >= 2
                               THEN PercentChange(current_price,
                                                  hist[Len(hist) - 1].close)
                               ELSE Zero,
                           asset_type |-> "stock",
                           currency |-> CurrencyCode(symbol)],
                       cache |-> cache,
                       prices |-> SaveHistoricalData(prices, symbol, hist, o.write_ok),
                       requests |-> <<req>>]

-----------------------------------------------------------------------------
(* DataFetcher.get_asset_data: the attempts it makes, in order, until one  *)
(* returns data.                                                           *)

CryptoIdAsGiven(symbol) == symbol

\* The identifier handed to fetch_crypto_data.
CryptoId(symbol) == Lower(symbol)

\* The ticker handed to fetch_stock_data.
StockTicker(symbol) == Upper(symbol)

\* [crypto.lower() for crypto in Config.CRYPTO_SYMBOLS]
CryptoSymbolsLower == {Lower(c) : c \in CRYPTO_SYMBOLS}

InCryptoList(symbol) == Lower(symbol) \in CryptoSymbolsLower
InFiiList(symbol) == Upper(symbol) \in FII_SYMBOLS
InStockList(symbol) == Upper(symbol) \in STOCK_SYMBOLS

AttemptsRepeated(symbol) ==
    LET auto == <<[provider |-> "crypto", arg |-> CryptoId(symbol),
                   branch |-> "auto_crypto"],
                  [provider |-> "stock", arg |-> StockTicker(symbol),
                   branch |-> "auto_stock"]>>
    IN  auto \o auto

\* The fetches of one call in the order of the code: the branches "Cripto",
\* "FII" and "Stock" for a listed symbol, then the automatic attempts, which
\* every call reaches when nothing before them returned data.
Attempts(symbol) ==
    (IF InCryptoList(symbol)
     THEN <<[provider |-> "crypto", arg |-> CryptoId(symbol), branch |-> "crypto"]>>
     ELSE <<>>)
    \o (IF InFiiList(symbol)
        THEN <<[provider |-> "stock", arg |-> StockTicker(symbol), branch |-> "fii"]>>
        ELSE <<>>)
    \o (IF InStockList(symbol)
        THEN <<[provider |-> "stock", arg |-> StockTicker(symbol), branch |-> "stock"]>>
        ELSE <<>>)
    \o <<[provider |-> "crypto", arg |-> CryptoId(symbol), branch |-> "auto_crypto"],
         [provider |-> "stock", arg |-> StockTicker(symbol), branch |-> "auto_stock"]>>

\* What a branch does to the data it got before returning it.
Tagged(a, symbol, data) ==
    IF a.branch = "fii" THEN [data EXCEPT !.asset_type = "fii"]
    ELSE IF a.branch = "auto_stock"
            /\ (EndsWith(Upper(symbol), <<"1", "1">>) \/ InFiiList(symbol))
         THEN [data EXCEPT !.asset_type = "fii"]
         ELSE data

\* One fetch.
RunAttempt(a, days, cache, prices, t, o) ==
    IF a.provider = "crypto"
    THEN FetchCryptoData(a.arg, days, cache, prices, t, o)
    ELSE FetchStockData(a.arg, days, cache, prices, t, o)

\* get_asset_data(symbol, days) from attempt i on, os[i] being what the outside
\* does during attempt i.
RECURSIVE RunAttempts(_, _, _, _, _, _, _, _)
RunAttempts(symbol, days, i, cache, prices, t, os, requests) ==
    IF i > Len(Attempts(symbol))
    THEN [data |-> NoData, cache |-> cache, prices |-> prices,
          requests |-> requests]
    ELSE LET a == Attempts(symbol)[i]
             r == RunAttempt(a, days, cache, prices, t, os[i])
         IN  IF r.data = Raised
             THEN [r EXCEPT !.requests = requests \o r.requests]
             ELSE IF r.data # NoData
             THEN [r EXCEPT !.data = Tagged(a, symbol, r.data),
                            !.requests = requests \o r.requests]
             ELSE RunAttempts(symbol, days, i + 1, r.cache, r.prices, t, os,
                              requests \o r.requests)

GetAssetData(symbol, days, cache, prices, t, os) ==
    RunAttempts(symbol, days, 1, cache, prices, t, os, <<>>)

-----------------------------------------------------------------------------
(* The state every specification starts from or leaves alone.              *)

\* The symbols the wallet is asked about, as the client writes them.
WalletSymbols == {BTC, Upper(BTC), ETH}
HoldingKeys == {Lower(s) : s \in WalletSymbols}

EmptyHoldings == [k \in HoldingKeys |-> NoDoc]
IdleReplay == [phase |-> "idle"]
NoCall == [nocall |-> TRUE]
IdleGateway == [phase |-> "idle", log |-> <<>>, last |-> NoCall]
Procs == {1, 2}
IdleFrame == [pc |-> "idle"]
IdleProcs == [p \in Procs |-> IdleFrame]

\* A Holding an earlier recompute left: Buy 10 at 10.
StaleHolding(symbol) ==
    [symbol |-> Lower(symbol), asset_type |-> "crypto", total_quantity |-> R(10),
     average_buy_price |-> R(10), total_invested |-> R(100),
     first_purchase_date |-> 1, valuation |-> NoValue]

-----------------------------------------------------------------------------
(* SpecReplay: one call of update_wallet_holdings, iteration by iteration, *)
(* on lists find().sort("date", 1) can return: the i-th document has date *)
(* i.                                                                      *)

MaxReplayTx == 3
Quantities == {4, 10, 15}
Prices == {10, 20}

\* WalletTransaction bodies that pass validate_positive_numbers.  total_value
\* is not tied to quantity x price_per_unit by any validator: a buy carries
\* either the product or 1.  A sell's price and value are never read.
ReplayBuys ==
    { [symbol |-> BTC, asset_type |-> "crypto", transaction_type |-> "buy",
       quantity |-> R(q), price_per_unit |-> R(p),
       total_value |-> IF exact THEN R(q * p) ELSE R(1), date |-> 1] :
         q \in Quantities, p \in Prices, exact \in BOOLEAN }

ReplaySells ==
    { [symbol |-> BTC, asset_type |-> "crypto", transaction_type |-> "sell",
       quantity |-> R(q), price_per_unit |-> R(10), total_value |-> R(q * 10),
       date |-> 1] : q \in Quantities }

ReplayBodies == ReplayBuys \cup ReplaySells

\* The documents add_transaction stores for them (_id set on insertion).
ReplayDocs == {TxDoc(0, t) : t \in ReplayBodies}

\* A list the query can return: documents in ascending date order.
IsSortedByDate(txs) ==
    \A i \in 1..(Len(txs) - 1) : txs[i].date <= txs[i + 1].date

InitReplay ==
    /\ \E n \in 0..MaxReplayTx : \E f \in [1..n -> ReplayDocs] :
         LET txs == [i \in 1..n |-> [f[i] EXCEPT !._id = i, !.date = i]]
         IN  /\ IsSortedByDate(txs)
             /\ replay = [phase |-> "found", symbol |-> BTC, transactions |-> txs,
                          idx |-> 1, total_quantity |-> Zero, total_invested |-> Zero,
                          weighted_price_sum |-> Zero, store |-> "none"]
             /\ wallet_transactions = txs
             /\ next_id = n + 1
    /\ wallet_holdings \in
         {EmptyHoldings, [EmptyHoldings EXCEPT ![Lower(BTC)] = StaleHolding(BTC)]}
    /\ cache_collection = <<>>
    /\ prices_collection = <<>>
    /\ now = 0
    /\ proc = IdleProcs
    /\ gw = IdleGateway

ReplayTotals ==
    [total_quantity |-> replay.total_quantity,
     total_invested |-> replay.total_invested,
     weighted_price_sum |-> replay.weighted_price_sum]

\* "if not transactions: db.delete_holding(symbol); return".  delete_holding
\* catches what delete_one raises and returns False.
ReplayEmpty ==
    /\ replay.phase = "found"
    /\ replay.transactions = <<>>
    /\ \/ /\ wallet_holdings' = DeleteHolding(wallet_holdings, replay.symbol)
          /\ replay' = [replay EXCEPT !.phase = "returned", !.store = "ok"]
       \/ /\ wallet_holdings' = wallet_holdings
          /\ replay' = [replay EXCEPT !.phase = "returned", !.store = "failed"]
    /\ UNCHANGED <<wallet_transactions, cache_collection, prices_collection, now,
                   next_id, proc, gw>>

\* One iteration of the loop.
ReplayStep ==
    /\ replay.phase = "found"
    /\ replay.transactions # <<>>
    /\ replay.idx <= Len(replay.transactions)
    /\ LET st == ApplyTx(ReplayTotals, replay.transactions[replay.idx])
       IN  replay' = [replay EXCEPT !.idx = @ + 1,
                                    !.total_quantity = st.total_quantity,
                                    !.total_invested = st.total_invested,
                                    !.weighted_price_sum = st.weighted_price_sum]
    /\ UNCHANGED <<wallet_transactions, wallet_holdings, cache_collection,
                   prices_collection, now, next_id, proc, gw>>

\* After the loop: db.update_holding(symbol, holding_doc); what update_one
\* raises is logged and raised again.
ReplayFinish ==
    /\ replay.phase = "found"
    /\ replay.transactions # <<>>
    /\ replay.idx > Len(replay.transactions)
    /\ \/ /\ wallet_holdings' =
               UpdateHolding(wallet_holdings, replay.symbol,
                   HoldingDoc(replay.symbol, replay.transactions, ReplayTotals))
          /\ replay' = [replay EXCEPT !.phase = "returned", !.store = "ok"]
       \/ /\ wallet_holdings' = wallet_holdings
          /\ replay' = [replay EXCEPT !.phase = "raised", !.store = "failed"]
    /\ UNCHANGED <<wallet_transactions, cache_collection, prices_collection, now,
                   next_id, proc, gw>>

NextReplay == ReplayEmpty \/ ReplayStep \/ ReplayFinish

SpecReplay == InitReplay /\ [][NextReplay]_vars

-----------------------------------------------------------------------------
(* Spec, SpecSequential: the wallet's write handlers add_transaction and   *)
(* delete_transaction, one store operation per step.  Under Spec two       *)
(* requests run at once (two workers on one database); under               *)
(* SpecSequential one request runs at a time.  The clock stands still.     *)
(* Every store operation either succeeds or raises.                        *)

MaxTx == 2
WalletQuantities == {1, 2}
WalletDates == {1, 2}

WalletBodies ==
    { [symbol |-> sym, asset_type |-> "crypto", transaction_type |-> ty,
       quantity |-> R(q), price_per_unit |-> R(10), total_value |-> R(q * 10),
       date |-> d] :
         sym \in WalletSymbols, ty \in {"buy", "sell"}, q \in WalletQuantities,
         d \in WalletDates }

\* The bodies of requests that run at once: one symbol, one quantity.
SameSymbolBodies ==
    { b \in WalletBodies : b.symbol = BTC /\ b.quantity = R(1) }

\* What the outside does during the lookup of a wallet request, the same for
\* each attempt of the call: the providers answer and the cache works, or
\* nothing does.
WalletOracles ==
    { [i \in 1..3 |->
         [read_ok |-> TRUE, write_ok |-> TRUE,
          upstream |-> [kind |-> "quote", usd |-> R(100), usd_24h_change |-> Zero]]],
      [i \in 1..3 |->
         [read_ok |-> FALSE, write_ok |-> FALSE, upstream |-> [kind |-> "raise"]]] }

\* find({"symbol": key}): the stored transactions of the symbol.
TransactionsOf(txs, key) == SelectSeq(txs, LAMBDA tx : tx.symbol = key)

\* The lists find({"symbol": key}).sort("date", 1) can return: every order of
\* the symbol's documents with ascending dates.  The store promises no order
\* among documents of equal date.
SortedReads(txs, key) ==
    LET mine == TransactionsOf(txs, key)
        n == Len(mine)
    IN  { [i \in 1..n |-> mine[f[i]]] :
            f \in { g \in [1..n -> 1..n] :
                      /\ \A i, j \in 1..n : i # j => g[i] # g[j]
                      /\ \A i \in 1..(n - 1) : mine[g[i]].date <= mine[g[i + 1]].date } }

HasTransaction(txs, id) == \E i \in DOMAIN txs : txs[i]._id = id
TransactionById(txs, id) == txs[CHOOSE i \in DOMAIN txs : txs[i]._id = id]

\* delete_one({"_id": id})
DeleteOne(txs, id) == SelectSeq(txs, LAMBDA tx : tx._id # id)

Init ==
    /\ wallet_transactions = <<>>
    /\ wallet_holdings = EmptyHoldings
    /\ cache_collection = <<>>
    /\ prices_collection = <<>>
    /\ now = 0
    /\ next_id = 1
    /\ proc = IdleProcs
    /\ replay = IdleReplay
    /\ gw = IdleGateway

\* One request at a time: the second worker never takes one.
InitSequential ==
    /\ wallet_transactions = <<>>
    /\ wallet_holdings = EmptyHoldings
    /\ cache_collection = <<>>
    /\ prices_collection = <<>>
    /\ now = 0
    /\ next_id = 1
    /\ proc = [p \in Procs |-> IF p = 1 THEN IdleFrame ELSE [pc |-> "off"]]
    /\ replay = IdleReplay
    /\ gw = IdleGateway

Free(p) == proc[p].pc \in {"idle", "done"}

\* The request has answered: result is the HTTP outcome, store what became of
\* the recompute's write to wallet_holdings ("none": it was not reached).
Done(p, op, symbol, result, store) ==
    [pc |-> "done", op |-> op, symbol |-> Lower(symbol), result |-> result,
     store |-> store]

\* POST /transactions arrives with a valid body, one of bodies.
AddStart(p, bodies) ==
    /\ Free(p)
    /\ next_id <= MaxTx
    /\ \E body \in bodies :
         proc' = [proc EXCEPT ![p] = [pc |-> "add_lookup", op |-> "add",
                                      body |-> body, symbol |-> body.symbol]]
    /\ UNCHANGED <<wallet_transactions, wallet_holdings, cache_collection,
                   prices_collection, now, next_id, replay, gw>>

AssetFoundAlways(asset_data) == TRUE

\* "if not asset_data" is not taken.
AssetFound(asset_data) == asset_data # NoData

\* asset_data = data_fetcher.get_asset_data(transaction.symbol, days=1);
\* 404 when it is None.
AddLookup(p) ==
    /\ proc[p].pc = "add_lookup"
    /\ \E os \in WalletOracles :
         LET r == GetAssetData(proc[p].body.symbol, 1, cache_collection,
                               prices_collection, now, os)
         IN  /\ cache_collection' = r.cache
             /\ prices_collection' = r.prices
             /\ proc' = [proc EXCEPT ![p] =
                   IF ~AssetFound(r.data)
                   THEN Done(p, "add", proc[p].symbol, "404", "none")
                   ELSE [asset_data |-> r.data] @@ [@ EXCEPT !.pc = "add_insert"]]
    /\ UNCHANGED <<wallet_transactions, wallet_holdings, now, next_id, replay, gw>>

\* result = db.db.wallet_transactions.insert_one(transaction_doc)
AddInsert(p) ==
    /\ proc[p].pc = "add_insert"
    /\ \/ /\ wallet_transactions' =
               Append(wallet_transactions, TxDoc(next_id, proc[p].body))
          /\ next_id' = next_id + 1
          /\ proc' = [proc EXCEPT ![p] = [@ EXCEPT !.pc = "find"]]
       \/ /\ proc' = [proc EXCEPT ![p] =
                         Done(p, "add", proc[p].symbol, "500", "none")]
          /\ UNCHANGED <<wallet_transactions, next_id>>
    /\ UNCHANGED <<wallet_holdings, cache_collection, prices_collection, now,
                   replay, gw>>

\* DELETE /transactions/{transaction_id} arrives.
DeleteStart(p) ==
    /\ Free(p)
    /\ \E id \in 1..MaxTx :
         proc' = [proc EXCEPT ![p] = [pc |-> "del_find_one", op |-> "delete",
                                      id |-> id, symbol |-> <<>>]]
    /\ UNCHANGED <<wallet_transactions, wallet_holdings, cache_collection,
                   prices_collection, now, next_id, replay, gw>>

\* transaction = find_one({"_id": ObjectId(transaction_id)}); 404 when None.
DeleteFindOne(p) ==
    /\ proc[p].pc = "del_find_one"
    /\ \/ proc' = [proc EXCEPT ![p] =
              IF HasTransaction(wallet_transactions, proc[p].id)
              THEN [@ EXCEPT !.pc = "del_delete_one",
                             !.symbol = TransactionById(wallet_transactions,
                                                        proc[p].id).symbol]
              ELSE Done(p, "delete", <<>>, "404", "none")]
       \/ proc' = [proc EXCEPT ![p] = Done(p, "delete", <<>>, "500", "none")]
    /\ UNCHANGED <<wallet_transactions, wallet_holdings, cache_collection,
                   prices_collection, now, next_id, replay, gw>>

\* result = delete_one({"_id": ObjectId(transaction_id)}); 404 when
\* deleted_count is 0.
DeleteDeleteOne(p) ==
    /\ proc[p].pc = "del_delete_one"
    /\ \/ /\ wallet_transactions' = DeleteOne(wallet_transactions, proc[p].id)
          /\ proc' = [proc EXCEPT ![p] =
                IF HasTransaction(wallet_transactions, proc[p].id)
                THEN [@ EXCEPT !.pc = "find"]
                ELSE Done(p, "delete", proc[p].symbol, "404", "none")]
       \/ /\ proc' = [proc EXCEPT ![p] =
                         Done(p, "delete", proc[p].symbol, "500", "none")]
          /\ UNCHANGED wallet_transactions
    /\ UNCHANGED <<wallet_holdings, cache_collection, prices_collection, now,
                   next_id, replay, gw>>

\* update_wallet_holdings: transactions = list(find(...).sort("date", 1));
\* what it raises is raised again and becomes the handler's 500.
RecomputeFind(p) ==
    /\ proc[p].pc = "find"
    /\ \/ \E txs \in SortedReads(wallet_transactions, Lower(proc[p].symbol)) :
            proc' = [proc EXCEPT ![p] =
                        [pc |-> "write", op |-> proc[p].op,
                         symbol |-> proc[p].symbol, transactions |-> txs]]
       \/ proc' = [proc EXCEPT ![p] =
                      Done(p, proc[p].op, proc[p].symbol, "500", "none")]
    /\ UNCHANGED <<wallet_transactions, wallet_holdings, cache_collection,
                   prices_collection, now, next_id, replay, gw>>

\* update_wallet_holdings on an empty list: db.delete_holding(symbol), which
\* returns False when delete_one raises; the handler returns success.
RecomputeDelete(p) ==
    /\ proc[p].pc = "write"
    /\ proc[p].transactions = <<>>
    /\ \/ /\ wallet_holdings' = DeleteHolding(wallet_holdings, proc[p].symbol)
          /\ proc' = [proc EXCEPT ![p] =
                         Done(p, proc[p].op, proc[p].symbol, "ok", "deleted")]
       \/ /\ wallet_holdings' = wallet_holdings
          /\ proc' = [proc EXCEPT ![p] =
                         Done(p, proc[p].op, proc[p].symbol, "ok", "delete_failed")]
    /\ UNCHANGED <<wallet_transactions, cache_collection, prices_collection, now,
                   next_id, replay, gw>>

\* update_wallet_holdings on a non-empty list: the loop, then
\* db.update_holding(symbol, holding_doc); what it raises becomes the 500.
RecomputeUpsert(p) ==
    /\ proc[p].pc = "write"
    /\ proc[p].transactions # <<>>
    /\ LET txs == proc[p].transactions
           holding_doc == HoldingDoc(proc[p].symbol, txs, ReplayPrefix(txs, Len(txs)))
       IN  \/ /\ wallet_holdings' =
                   UpdateHolding(wallet_holdings, proc[p].symbol, holding_doc)
              /\ proc' = [proc EXCEPT ![p] =
                             Done(p, proc[p].op, proc[p].symbol, "ok", "upserted")]
           \/ /\ wallet_holdings' = wallet_holdings
              /\ proc' = [proc EXCEPT ![p] =
                             Done(p, proc[p].op, proc[p].symbol, "500", "upsert_failed")]
    /\ UNCHANGED <<wallet_transactions, cache_collection, prices_collection, now,
                   next_id, replay, gw>>

\* The steps of a request once it has arrived.
Handle(p) ==
    \/ AddLookup(p)
    \/ AddInsert(p)
    \/ DeleteStart(p)
    \/ DeleteFindOne(p)
    \/ DeleteDeleteOne(p)
    \/ RecomputeFind(p)
    \/ RecomputeDelete(p)
    \/ RecomputeUpsert(p)

Next == \E p \in Procs : AddStart(p, SameSymbolBodies) \/ Handle(p)

NextSequential == \E p \in Procs : AddStart(p, WalletBodies) \/ Handle(p)

\* Two requests at a time, on one symbol.
Spec == Init /\ [][Next]_vars

\* One request at a time, on every symbol of WalletSymbols.
SpecSequential == InitSequential /\ [][NextSequential]_vars

-----------------------------------------------------------------------------
(* Claims on the replay, checked under SpecReplay.                         *)

ReplayHolding == wallet_holdings[Lower(replay.symbol)]

\* The recompute returned after the store took its upsert.
ReplayUpserted ==
    /\ replay.phase = "returned"
    /\ replay.store = "ok"
    /\ replay.transactions # <<>>

IsOversell(txs, k) ==
    /\ txs[k].transaction_type = "sell"
    /\ RLt(ReplayPrefix(txs, k - 1).total_quantity, txs[k].quantity)

\* C3: the running total_quantity of the replay is never negative, whatever
\* buys and sells (oversells included) the list holds, and every persisted
\* Holding has total_quantity >= 0.
C3_QuantityNeverNegative ==
    /\ replay.phase # "idle" => RGeq(replay.total_quantity, Zero)
    /\ \A k \in HoldingKeys :
         wallet_holdings[k] # NoDoc => RGeq(wallet_holdings[k].total_quantity, Zero)

\* A replay that met an oversell has upserted its Holding.
C3_Witness ==
    /\ ReplayUpserted
    /\ \E k \in DOMAIN replay.transactions : IsOversell(replay.transactions, k)
    /\ ReplayHolding.total_quantity = replay.total_quantity

RECURSIVE SumQuantity(_, _)
SumQuantity(txs, k) ==
    IF k = 0 THEN Zero ELSE RAdd(SumQuantity(txs, k - 1), txs[k].quantity)

RECURSIVE SumQuantityTimesPrice(_, _)
SumQuantityTimesPrice(txs, k) ==
    IF k = 0 THEN Zero
    ELSE RAdd(SumQuantityTimesPrice(txs, k - 1),
              RMul(txs[k].quantity, txs[k].price_per_unit))

OnlyBuys(txs) == \A i \in DOMAIN txs : txs[i].transaction_type = "buy"

\* C4: for a non-empty list of buys only, the stored average_buy_price is
\* sum(quantity x price_per_unit) / sum(quantity) and the stored
\* total_quantity is sum(quantity).
C4_BuysWeightedMean ==
    (ReplayUpserted /\ OnlyBuys(replay.transactions)) =>
        LET txs == replay.transactions
            n == Len(txs)
        IN  /\ ReplayHolding.total_quantity = SumQuantity(txs, n)
            /\ ReplayHolding.average_buy_price =
                   RDiv(SumQuantityTimesPrice(txs, n), SumQuantity(txs, n))

\* Buys of different sizes and prices, one of them with a total_value that is
\* not quantity x price_per_unit, have been replayed and stored.
C4_Witness ==
    /\ ReplayUpserted
    /\ OnlyBuys(replay.transactions)
    /\ \E i, j \in DOMAIN replay.transactions :
         /\ replay.transactions[i].quantity # replay.transactions[j].quantity
         /\ replay.transactions[i].price_per_unit # replay.transactions[j].price_per_unit
         /\ replay.transactions[i].total_value = R(1)
    /\ ReplayHolding.total_quantity = replay.total_quantity

\* The spec's examples, every total_value being quantity x price_per_unit.
IsExample(txs, shape) ==
    /\ Len(txs) = Len(shape)
    /\ \A i \in DOMAIN shape :
         /\ txs[i].transaction_type = shape[i][1]
         /\ txs[i].quantity = R(shape[i][2])
         /\ txs[i].transaction_type = "buy" =>
              /\ txs[i].price_per_unit = R(shape[i][3])
              /\ txs[i].total_value = R(shape[i][2] * shape[i][3])

Buy10At10_Sell4 == <<<<"buy", 10, 10>>, <<"sell", 4, 10>>>>
Buy10At10_Buy10At20_Sell15 == <<<<"buy", 10, 10>>, <<"buy", 10, 20>>, <<"sell", 15, 10>>>>

C5_Examples ==
    /\ (ReplayUpserted /\ IsExample(replay.transactions, Buy10At10_Sell4)) =>
          /\ ReplayHolding.total_quantity = R(6)
          /\ ReplayHolding.total_invested = R(60)
          /\ ReplayHolding.average_buy_price = R(10)
    /\ (ReplayUpserted /\ IsExample(replay.transactions, Buy10At10_Buy10At20_Sell15)) =>
          /\ ReplayHolding.total_quantity = R(5)
          /\ ReplayHolding.total_invested = R(75)

\* The step taken is an iteration of the loop on a sell the running quantity covers.
IsCoveredSellStep ==
    /\ replay.phase = "found"
    /\ replay'.phase = "found"
    /\ replay'.idx = replay.idx + 1
    /\ replay.transactions[replay.idx].transaction_type = "sell"
    /\ RGeq(replay.total_quantity, replay.transactions[replay.idx].quantity)

C5_SellStep ==
    IsCoveredSellStep =>
        LET q == replay.transactions[replay.idx].quantity
            avg == RDiv(replay.weighted_price_sum, replay.total_quantity)
        IN  /\ replay'.total_quantity = RSub(replay.total_quantity, q)
            /\ replay'.total_invested = RSub(replay.total_invested, RMul(avg, q))
            /\ replay'.weighted_price_sum =
                   RSub(replay.weighted_price_sum, RMul(avg, q))
            /\ RGt(replay'.total_quantity, Zero) =>
                   RDiv(replay'.weighted_price_sum, replay'.total_quantity) = avg

\* C5: a sell of size q met with running quantity >= q lowers the quantity by
\* q and lowers invested capital and the cost-basis sum by (average cost
\* before the sell) x q, the average cost staying the same while quantity is
\* left; [Buy 10@10, Sell 4] gives 6 / 60 / 10 and [Buy 10@10, Buy 10@20,
\* Sell 15] gives quantity 5, invested 75.
C5_SellAtAverageCost == []C5_Examples /\ [][C5_SellStep]_vars

\* The second example has been replayed and stored: the sell of 15 was taken
\* at the average cost of 15.
C5_Witness ==
    /\ ReplayUpserted
    /\ IsExample(replay.transactions, Buy10At10_Buy10At20_Sell15)
    /\ ReplayHolding.total_quantity = R(5)

-----------------------------------------------------------------------------
(* Claims on the write handlers, checked under SpecSequential and Spec.    *)

\* No call is in progress.
Quiet == \A p \in Procs : proc[p].pc \in {"idle", "done", "off"}

\* The stored Holding of key is what update_wallet_holdings makes of txs.
HoldingMatches(key, txs) ==
    IF txs = <<>>
    THEN wallet_holdings[key] = NoDoc
    ELSE /\ wallet_holdings[key] # NoDoc
         /\ LET doc == HoldingDoc(key, txs, ReplayPrefix(txs, Len(txs)))
            IN  /\ wallet_holdings[key].total_quantity = doc.total_quantity
                /\ wallet_holdings[key].average_buy_price = doc.average_buy_price
                /\ wallet_holdings[key].total_invested = doc.total_invested

\* The stored Holding of key is the replay of the stored transactions of key
\* in one of the orders the sorted read can give.
HoldingIsReplay(key) ==
    \E txs \in SortedReads(wallet_transactions, key) : HoldingMatches(key, txs)

\* C1: whenever no call is in progress, after any calls of add_transaction
\* and delete_transaction (those that ended with an error included), the
\* Holding of every symbol is the replay of the symbol's stored transactions
\* in date order: same total_quantity, average_buy_price and total_invested.
C1_HoldingsMatchReplay ==
    Quiet => \A key \in HoldingKeys : HoldingIsReplay(key)

\* The call of p answered with success after the store took its write of the
\* Holding of key.
WroteHolding(p, key) ==
    /\ proc[p].pc = "done"
    /\ proc[p].result = "ok"
    /\ proc[p].store \in {"upserted", "deleted"}
    /\ proc[p].symbol = key

\* C2: once two writers of one symbol that ran at once have both finished,
\* the Holding of the symbol is the replay of the final transaction set: no
\* recomputation of an older set overwrites that of a newer one.
C2_WritersSerialized ==
    \A key \in HoldingKeys :
        (\A p \in Procs : WroteHolding(p, key)) => HoldingIsReplay(key)

-----------------------------------------------------------------------------
(* SpecGateway: calls of DataFetcher.get_asset_data by one caller, one     *)
(* fetch per step, while the clock advances between calls.  gw.log holds   *)
(* one line per finished call, gw.last what the last one returned and the  *)
(* fetches it made.                                                        *)

MaxCalls == 2
MaxNow == 10
TickMinutes == 5

AAPL == <<"A","A","P","L">>

\* The symbols asked for: a listed crypto id in two cases, a listed stock, a
\* listed fund and a symbol of no list.
GatewaySymbols == {BTC, Upper(BTC), PETR4_SA, KNCR11_SA, AAPL}
GatewayDays == {1, 2}

\* What the store does during a call: it works, its reads raise, or its
\* writes raise.
StoreModes ==
    { [read_ok |-> TRUE, write_ok |-> TRUE],
      [read_ok |-> FALSE, write_ok |-> TRUE],
      [read_ok |-> TRUE, write_ok |-> FALSE] }

\* What a provider may answer to the request of one fetch.
UpstreamAnswers(provider, days) ==
    IF provider = "crypto"
    THEN IF days = 1
         THEN { [kind |-> "raise"], [kind |-> "absent"],
                [kind |-> "quote", usd |-> R(100), usd_24h_change |-> R(1)] }
         ELSE { [kind |-> "raise"],
                [kind |-> "chart", prices |-> <<>>],
                [kind |-> "chart", prices |-> <<<<1, R(100)>>, <<2, R(110)>>>>] }
    ELSE IF days = 1
         THEN { [kind |-> "raise"],
                [kind |-> "hist", rows |-> <<[date |-> 1, close |-> R(100)]>>],
                [kind |-> "hist", rows |-> <<[date |-> 1, close |-> R(100)],
                                             [date |-> 2, close |-> R(110)]>>] }
         ELSE { [kind |-> "raise"],
                [kind |-> "hist", rows |-> <<>>],
                [kind |-> "hist", rows |-> <<[date |-> 1, close |-> R(100)],
                                             [date |-> 2, close |-> R(110)],
                                             [date |-> 3, close |-> R(120)]>>] }

InitGateway ==
    /\ wallet_transactions = <<>>
    /\ wallet_holdings = EmptyHoldings
    /\ cache_collection = <<>>
    /\ prices_collection = <<>>
    /\ now = 0
    /\ next_id = 1
    /\ proc = IdleProcs
    /\ replay = IdleReplay
    /\ gw = IdleGateway

\* get_asset_data(symbol, days) is called.
GwCall ==
    /\ gw.phase = "idle"
    /\ Len(gw.log) < MaxCalls
    /\ \E symbol \in GatewaySymbols, days \in GatewayDays, store \in StoreModes :
         gw' = [phase |-> "running", symbol |-> symbol, days |-> days,
                idx |-> 1, fetches |-> <<>>, store |-> store, started |-> now,
                log |-> gw.log, last |-> NoCall]
    /\ UNCHANGED <<wallet_transactions, wallet_holdings, cache_collection,
                   prices_collection, now, next_id, proc, replay>>

\* The sum of the requests of the fetches.
RECURSIVE Requests(_)
Requests(fetches) ==
    IF fetches = <<>> THEN 0
    ELSE fetches[1].requests + Requests(SubSeq(fetches, 2, Len(fetches)))

\* The call returns data (None: NoData) after the fetches.
Returned(data, fetches) ==
    [phase |-> "idle",
     log |-> Append(gw.log,
                [symbol |-> gw.symbol, days |-> gw.days, store |-> gw.store,
                 started |-> gw.started, finished |-> now,
                 returned |-> data \notin {NoData, Raised},
                 requests |-> Requests(fetches)]),
     last |-> [symbol |-> gw.symbol, days |-> gw.days, data |-> data,
               fetches |-> fetches]]

\* The next fetch of the running call and what follows it: return its data,
\* go on to the next attempt, or return None after the last one.
GwAttempt ==
    /\ gw.phase = "running"
    /\ LET a == Attempts(gw.symbol)[gw.idx]
       IN  \E up \in UpstreamAnswers(a.provider, gw.days) :
             LET o == [read_ok |-> gw.store.read_ok,
                       write_ok |-> gw.store.write_ok, upstream |-> up]
                 r == RunAttempt(a, gw.days, cache_collection,
                                 prices_collection, now, o)
                 fetches == Append(gw.fetches,
                               [provider |-> a.provider, arg |-> a.arg,
                                requests |-> Len(r.requests),
                                answer |-> IF r.requests = <<>> THEN "cache"
                                           ELSE up.kind,
                                returned |-> r.data \notin {NoData, Raised}])
             IN  /\ cache_collection' = r.cache
                 /\ prices_collection' = r.prices
                 /\ gw' = IF r.data = Raised
                          THEN Returned(Raised, fetches)
                          ELSE IF r.data # NoData
                          THEN Returned(Tagged(a, gw.symbol, r.data), fetches)
                          ELSE IF gw.idx = Len(Attempts(gw.symbol))
                          THEN Returned(NoData, fetches)
                          ELSE [gw EXCEPT !.idx = @ + 1, !.fetches = fetches]
    /\ UNCHANGED <<wallet_transactions, wallet_holdings, now, next_id, proc,
                   replay>>

\* Time passes between calls.
Tick ==
    /\ gw.phase = "idle"
    /\ now < MaxNow
    /\ now' = now + TickMinutes
    /\ UNCHANGED <<wallet_transactions, wallet_holdings, cache_collection,
                   prices_collection, next_id, proc, replay, gw>>

NextGateway == GwCall \/ GwAttempt \/ Tick

SpecGateway == InitGateway /\ [][NextGateway]_vars

-----------------------------------------------------------------------------
(* Claims on get_asset_data, checked under SpecGateway.                    *)

StoreWorked(call) == call.store.read_ok /\ call.store.write_ok

\* Calls i and i + 1 of the log ask for the current quote of one symbol, the
\* first went upstream and returned data, the second returned before the
\* entry the first one wrote could expire, and the store worked throughout.
TwiceWithinWindow(i) ==
    LET first == gw.log[i]
        second == gw.log[i + 1]
    IN  /\ first.symbol = second.symbol
        /\ first.days = 1
        /\ second.days = 1
        /\ first.returned
        /\ first.requests > 0
        /\ second.finished < first.started + CACHE_EXPIRY_MINUTES
        /\ StoreWorked(first)
        /\ StoreWorked(second)

\* C7: for every symbol, two calls get_asset_data(symbol, 1) within the
\* cache expiry window, the first of which returned data, make exactly one
\* upstream request together: the second makes none.
C7_OneUpstreamRequest ==
    \A i \in 1..(Len(gw.log) - 1) :
        TwiceWithinWindow(i) =>
            /\ gw.log[i].requests + gw.log[i + 1].requests = 1
            /\ gw.log[i + 1].requests = 0

C10_NeverRaises ==
    gw.last # NoCall => gw.last.data # Raised

\* A call returned None after three fetches: the cache reads failed, one
\* provider raised, CoinGecko's answer lacked the id and yfinance gave one
\* row.
C10_Witness ==
    /\ gw.last # NoCall
    /\ gw.last.data = NoData
    /\ gw.last.days = 1
    /\ Len(gw.last.fetches) = 3
    /\ ~gw.log[Len(gw.log)].store.read_ok
    /\ gw.last.fetches[1].answer = "raise"
    /\ gw.last.fetches[2].answer = "absent"
    /\ gw.last.fetches[3].answer = "hist"

-----------------------------------------------------------------------------
(* SpecHoldings: the read handler get_wallet_holdings, one store operation *)
(* or one pass of its loop per step, on a wallet earlier recomputes left.  *)

\* round(x, 2): the nearest hundredth, a half going to the even one.
Round2(x) ==
    LET n == x[1] * 100
        q == n \div x[2]
        r == n % x[2]
        up == 2 * r > x[2] \/ (2 * r = x[2] /\ q % 2 = 1)
    IN  RNorm(IF up THEN q + 1 ELSE q, 100)

\* None in the place of an asset.
NoAsset == [noasset |-> TRUE]
\* The loop passed a holding without asking for its quote.
NotAsked == [notasked |-> TRUE]

ViewBody(symbol, ty, q, price, d) ==
    [symbol |-> symbol, asset_type |-> "crypto", transaction_type |-> ty,
     quantity |-> R(q), price_per_unit |-> R(price),
     total_value |-> R(q * price), date |-> d]

\* The transactions a symbol may have when the call starts, with ids from
\* base + 1 on: none, one buy, two buys at different prices, a buy sold in
\* full.
ViewLists(symbol, base) ==
    { <<>>,
      <<TxDoc(base + 1, ViewBody(symbol, "buy", 2, 10, 1))>>,
      <<TxDoc(base + 1, ViewBody(symbol, "buy", 1, 10, 1)),
        TxDoc(base + 2, ViewBody(symbol, "buy", 3, 200, 2))>>,
      <<TxDoc(base + 1, ViewBody(symbol, "buy", 1, 10, 1)),
        TxDoc(base + 2, ViewBody(symbol, "sell", 1, 10, 2))>> }

\* The Holding update_wallet_holdings leaves for txs.
RecomputedHolding(symbol, txs) ==
    IF txs = <<>> THEN NoDoc
    ELSE HoldingDoc(symbol, txs, ReplayPrefix(txs, Len(txs)))
         @@ [valuation |-> NoValue]

InitHoldings ==
    /\ \E btc \in ViewLists(BTC, 0), eth \in ViewLists(ETH, 2) :
         /\ wallet_transactions = btc \o eth
         /\ wallet_holdings =
                [k \in HoldingKeys |->
                    RecomputedHolding(k, IF k = BTC THEN btc ELSE eth)]
    /\ cache_collection = <<>>
    /\ prices_collection = <<>>
    /\ now = 0
    /\ next_id = 5
    /\ proc = [p \in Procs |-> IF p = 1 THEN IdleFrame ELSE [pc |-> "off"]]
    /\ replay = IdleReplay
    /\ gw = IdleGateway

\* What the outside does during the lookup of one holding: the providers
\* answer with one of two prices and the cache works, or nothing does.
ViewOracles ==
    WalletOracles \cup
    { [i \in 1..3 |->
         [read_ok |-> TRUE, write_ok |-> TRUE,
          upstream |-> [kind |-> "quote", usd |-> R(5), usd_24h_change |-> Zero]]] }

\* list(db.db.wallet_holdings.find({})): the documents in any order.
FindAll(holdings) ==
    LET keys == {k \in DOMAIN holdings : holdings[k] # NoDoc}
        n == Cardinality(keys)
    IN  { [i \in 1..n |-> holdings[f[i]]] :
            f \in { g \in [1..n -> keys] :
                      \A i, j \in 1..n : i # j => g[i] # g[j] } }

\* current_price, current_value, profit_loss and profit_loss_percent of a
\* holding at a quote.
Valuation(holding, current_data) ==
    LET current_price == current_data.current_price
        current_value == RMul(holding.total_quantity, current_price)
        profit_loss == RSub(current_value, holding.total_invested)
    IN  [current_price |-> current_price,
         current_value |-> current_value,
         profit_loss |-> profit_loss,
         profit_loss_percent |->
             IF RGt(holding.total_invested, Zero)
             THEN RMul(RDiv(profit_loss, holding.total_invested), R(100))
             ELSE Zero]

SetValuationAndCost(holdings, holding, v) ==
    IF holdings[holding.symbol] = NoDoc THEN holdings
    ELSE [holdings EXCEPT ![holding.symbol].valuation = v,
                          ![holding.symbol].total_invested = v.current_value]

\* update_one({"_id": holding["_id"]}, {"$set": {...}}) (last_update, a
\* time stamp, is left out).
SetValuation(holdings, holding, v) ==
    IF holdings[holding.symbol] = NoDoc THEN holdings
    ELSE [holdings EXCEPT ![holding.symbol].valuation = v]

\* The entry appended to assets.
AssetEntry(holding, current_data, v) ==
    [symbol |-> Upper(holding.symbol),
     asset_type |-> holding.asset_type,
     total_quantity |-> holding.total_quantity,
     average_buy_price |-> holding.average_buy_price,
     current_price |-> v.current_price,
     total_invested |-> holding.total_invested,
     current_value |-> v.current_value,
     profit_loss |-> v.profit_loss,
     profit_loss_percent |-> v.profit_loss_percent,
     price_change_24h |-> current_data.price_change_24h,
     first_purchase_date |-> holding.first_purchase_date]

\* "continue": the holding has no quantity and no quote is asked for.
PassOver(f) ==
    [f EXCEPT !.idx = @ + 1, !.quotes = Append(@, NotAsked)]

SkipAssetAsInvested(f, holding) ==
    [f EXCEPT !.idx = @ + 1, !.quotes = Append(@, NoData),
              !.total_invested = RAdd(@, holding.total_invested)]

\* current_data is None: nothing is done for the holding.
SkipAsset(f, holding) ==
    [f EXCEPT !.idx = @ + 1, !.quotes = Append(@, NoData)]

\* The body of "if current_data:" after the store took the update.
PriceAsset(f, holding, current_data) ==
    LET v == Valuation(holding, current_data)
    IN  [f EXCEPT !.idx = @ + 1,
                  !.quotes = Append(@, current_data),
                  !.total_value = RAdd(@, v.current_value),
                  !.total_invested = RAdd(@, holding.total_invested),
                  !.assets = Append(@, AssetEntry(holding, current_data, v))]

AsAppended(assets) == assets

\* sorted(assets, key=lambda x: x["current_value"], reverse=True): a stable
\* sort, equal values keeping the order they had.
RECURSIVE SortedByValue(_)
SortedByValue(assets) ==
    IF assets = <<>> THEN <<>>
    ELSE LET a == assets[Len(assets)]
             front == SortedByValue(SubSeq(assets, 1, Len(assets) - 1))
             k == Cardinality({i \in DOMAIN front :
                                  RGeq(front[i].current_value, a.current_value)})
         IN  SubSeq(front, 1, k) \o <<a>> \o SubSeq(front, k + 1, Len(front))

BestPerformerFirst(assets) ==
    IF assets = <<>> THEN NoAsset ELSE assets[1]

\* max(assets, key=...) if assets else None: the first of the greatest.
BestPerformer(assets) ==
    IF assets = <<>> THEN NoAsset
    ELSE assets[CHOOSE i \in DOMAIN assets :
                  /\ \A j \in DOMAIN assets :
                       RLeq(assets[j].profit_loss_percent,
                            assets[i].profit_loss_percent)
                  /\ \A j \in 1..(i - 1) :
                       RLt(assets[j].profit_loss_percent,
                           assets[i].profit_loss_percent)]

\* min(assets, key=...) if assets else None: the first of the least.
WorstPerformer(assets) ==
    IF assets = <<>> THEN NoAsset
    ELSE assets[CHOOSE i \in DOMAIN assets :
                  /\ \A j \in DOMAIN assets :
                       RGeq(assets[j].profit_loss_percent,
                            assets[i].profit_loss_percent)
                  /\ \A j \in 1..(i - 1) :
                       RGt(assets[j].profit_loss_percent,
                           assets[i].profit_loss_percent)]

\* The value get_wallet_holdings returns.
HoldingsResponse(f) ==
    LET total_profit_loss == RSub(f.total_value, f.total_invested)
        total_profit_loss_percent ==
            IF RGt(f.total_invested, Zero)
            THEN RMul(RDiv(total_profit_loss, f.total_invested), R(100))
            ELSE Zero
    IN  [assets |-> SortedByValue(f.assets),
         summary |->
            [total_value |-> Round2(f.total_value),
             total_invested |-> Round2(f.total_invested),
             total_profit_loss |-> Round2(total_profit_loss),
             total_profit_loss_percent |-> Round2(total_profit_loss_percent),
             assets_count |-> Len(f.assets),
             best_performer |-> BestPerformer(f.assets),
             worst_performer |-> WorstPerformer(f.assets)]]

\* The call answered: with the response, or with the 500 an exception
\* becomes.  holdings is what find({}) gave, quotes what each lookup gave.
HoldingsDone(p, result, response, holdings, quotes) ==
    Done(p, "holdings", <<>>, result, "none")
    @@ [response |-> response, holdings |-> holdings, quotes |-> quotes]

\* GET /holdings arrives.
HoldingsStart(p) ==
    /\ Free(p)
    /\ proc' = [proc EXCEPT ![p] = [pc |-> "view_find", op |-> "holdings"]]
    /\ UNCHANGED <<wallet_transactions, wallet_holdings, cache_collection,
                   prices_collection, now, next_id, replay, gw>>

\* holdings = list(db.db.wallet_holdings.find({}))
HoldingsFind(p) ==
    /\ proc[p].pc = "view_find"
    /\ \/ \E holdings \in FindAll(wallet_holdings) :
            proc' = [proc EXCEPT ![p] =
                        [pc |-> "view_loop", op |-> "holdings",
                         holdings |-> holdings, idx |-> 1, quotes |-> <<>>,
                         assets |-> <<>>, total_value |-> Zero,
                         total_invested |-> Zero]]
       \/ proc' = [proc EXCEPT ![p] =
                      HoldingsDone(p, "500", NoValue, <<>>, <<>>)]
    /\ UNCHANGED <<wallet_transactions, wallet_holdings, cache_collection,
                   prices_collection, now, next_id, replay, gw>>

\* One pass of "for holding in holdings".
HoldingsLoop(p) ==
    /\ proc[p].pc = "view_loop"
    /\ proc[p].idx <= Len(proc[p].holdings)
    /\ LET f == proc[p]
           holding == f.holdings[f.idx]
       IN  IF RLeq(holding.total_quantity, Zero)
           THEN /\ proc' = [proc EXCEPT ![p] = PassOver(f)]
                /\ UNCHANGED <<wallet_holdings, cache_collection,
                               prices_collection>>
           ELSE \E os \in ViewOracles :
                  LET r == GetAssetData(holding.symbol, 1, cache_collection,
                                        prices_collection, now, os)
                  IN  /\ cache_collection' = r.cache
                      /\ prices_collection' = r.prices
                      /\ IF r.data = NoData
                         THEN /\ proc' = [proc EXCEPT ![p] = SkipAsset(f, holding)]
                              /\ UNCHANGED wallet_holdings
                         ELSE \/ /\ wallet_holdings' =
                                       SetValuation(wallet_holdings, holding,
                                                    Valuation(holding, r.data))
                                 /\ proc' = [proc EXCEPT ![p] =
                                                PriceAsset(f, holding, r.data)]
                              \/ /\ proc' = [proc EXCEPT ![p] =
                                      HoldingsDone(p, "500", NoValue, f.holdings,
                                                   Append(f.quotes, r.data))]
                                 /\ UNCHANGED wallet_holdings
    /\ UNCHANGED <<wallet_transactions, now, next_id, replay, gw>>

\* The loop is over: the summary is computed and returned.
HoldingsReturn(p) ==
    /\ proc[p].pc = "view_loop"
    /\ proc[p].idx > Len(proc[p].holdings)
    /\ proc' = [proc EXCEPT ![p] =
                   HoldingsDone(p, "ok", HoldingsResponse(proc[p]),
                                proc[p].holdings, proc[p].quotes)]
    /\ UNCHANGED <<wallet_transactions, wallet_holdings, cache_collection,
                   prices_collection, now, next_id, replay, gw>>

NextHoldings ==
    \E p \in Procs :
        \/ HoldingsStart(p)
        \/ HoldingsFind(p)
        \/ HoldingsLoop(p)
        \/ HoldingsReturn(p)

SpecHoldings == InitHoldings /\ [][NextHoldings]_vars

-----------------------------------------------------------------------------
(* Claims on get_wallet_holdings, checked under SpecHoldings.              *)

\* The places in f.holdings of the holdings whose lookup returned data, and
\* of those whose lookup returned None.
Priced(f) == {i \in DOMAIN f.quotes : f.quotes[i] \notin {NoData, NotAsked}}
Unquoted(f) == {i \in DOMAIN f.quotes : f.quotes[i] = NoData}

\* The sum of quantity x quote over the holdings at the places I.
RECURSIVE SumValue(_, _)
SumValue(f, I) ==
    IF I = {} THEN Zero
    ELSE LET i == CHOOSE i \in I : TRUE
         IN  RAdd(RMul(f.holdings[i].total_quantity, f.quotes[i].current_price),
                  SumValue(f, I \ {i}))

\* The sum of total_invested over the holdings at the places I.
RECURSIVE SumInvested(_, _)
SumInvested(f, I) ==
    IF I = {} THEN Zero
    ELSE LET i == CHOOSE i \in I : TRUE
         IN  RAdd(f.holdings[i].total_invested, SumInvested(f, I \ {i}))

HoldingsAnswered(p) == proc[p].pc = "done" /\ proc[p].op = "holdings"

\* C8: get_wallet_holdings does not fail on a lookup that returned None: the
\* holding is left out of assets, adds nothing to summary.total_value,
\* summary.total_invested and assets_count, and the summary returned is the
\* one over the holdings that were priced.
C8_UnquotedAssetsLeftOut ==
    \A p \in Procs :
        HoldingsAnswered(p) =>
            LET f == proc[p]
                assets == f.response.assets
                summary == f.response.summary
            IN  /\ f.result = "500" =>
                     (f.quotes = <<>> \/ Last(f.quotes) # NoData)
                /\ f.result = "ok" =>
                     /\ Len(f.quotes) = Len(f.holdings)
                     /\ \A i \in Unquoted(f) : \A j \in DOMAIN assets :
                          assets[j].symbol # Upper(f.holdings[i].symbol)
                     /\ {assets[j].symbol : j \in DOMAIN assets} =
                            {Upper(f.holdings[i].symbol) : i \in Priced(f)}
                     /\ summary.assets_count = Cardinality(Priced(f))
                     /\ summary.total_value = Round2(SumValue(f, Priced(f)))
                     /\ summary.total_invested =
                            Round2(SumInvested(f, Priced(f)))

\* Of two holdings with quantity, one got no quote and the other was priced:
\* the call returned the summary of the one asset.
C8_Witness ==
    /\ HoldingsAnswered(1)
    /\ proc[1].result = "ok"
    /\ Len(proc[1].holdings) = 2
    /\ Unquoted(proc[1]) # {}
    /\ Priced(proc[1]) # {}
    /\ proc[1].response.summary.assets_count = 1
    /\ RGt(proc[1].response.summary.total_value, Zero)

\* The symbol is in none of the lists of Config.
InNoList(symbol) ==
    ~InCryptoList(symbol) /\ ~InFiiList(symbol) /\ ~InStockList(symbol)

\* C11: for a symbol of no list get_asset_data takes the non-crypto path
\* only: no fetch of the call goes to the crypto provider, and the call
\* returns None when the stock fetch gives nothing.
C11_UnknownOnlyNonCrypto ==
    (gw.last # NoCall /\ InNoList(gw.last.symbol)) =>
        /\ \A i \in DOMAIN gw.last.fetches :
             gw.last.fetches[i].provider # "crypto"
        /\ (\A i \in DOMAIN gw.last.fetches :
              gw.last.fetches[i].provider = "stock" =>
                  ~gw.last.fetches[i].returned)
               => gw.last.data = NoData

-----------------------------------------------------------------------------
(* Further claims on the replay, checked under SpecReplay.                 *)

\* C12: a failure of the holding write of the recompute, be it the upsert
\* (transactions exist) or the delete (no transaction), leaves the call as
\* an exception: update_wallet_holdings never returns normally after it.
C12_HoldingWriteFailurePropagates ==
    replay.store = "failed" => replay.phase = "raised"

-----------------------------------------------------------------------------
(* Further claims on the write handlers, checked under SpecSequential.     *)

\* C13: a Holding is deleted when its total_quantity reaches zero: whatever
\* transactions were written, no stored Holding has total_quantity = 0,
\* also when the symbol still has transactions.
C13_NoHoldingWithZeroQuantity ==
    \A key \in HoldingKeys :
        wallet_holdings[key] # NoDoc =>
            wallet_holdings[key].total_quantity # Zero

-----------------------------------------------------------------------------
(* Further claims on the replay, checked under SpecReplay: invariants of   *)
(* the stored Holding.                                                     *)

\* C14: every stored Holding has total_invested >= 0 and average_buy_price
\* >= 0, for transactions whose quantity, price_per_unit and total_value are
\* each > 0, total_value being free to differ from quantity x price_per_unit.
C14_InvestedAndAverageNonNegative ==
    \A key \in HoldingKeys :
        wallet_holdings[key] # NoDoc =>
            /\ RGeq(wallet_holdings[key].total_invested, Zero)
            /\ RGeq(wallet_holdings[key].average_buy_price, Zero)

-----------------------------------------------------------------------------
(* Further claims on get_asset_data, checked under SpecGateway.            *)

\* The step is a fetch of the running call.
IsFetchStep == gw.phase = "running" /\ gw' # gw

\* The fetch the step made.
FetchMade ==
    IF gw'.phase = "running" THEN Last(gw'.fetches) ELSE Last(gw'.last.fetches)

\* The cache holds under key an entry that has not expired.
Fresh(key) ==
    key \in DOMAIN cache_collection /\ cache_collection[key].expires_at > now

C15_Step ==
    IsFetchStep =>
        LET f == FetchMade
            key == f.arg
        IN  /\ f.answer = "cache" =>
                 /\ gw.days = 1
                 /\ Fresh(key)
                 /\ gw'.phase = "idle"
                 /\ [gw'.last.data EXCEPT !.asset_type =
                        cache_collection[key].data.asset_type]
                       = cache_collection[key].data
            /\ (gw.days = 1 /\ ~Fresh(key)) => f.requests = 1
            /\ (gw.days = 1 /\ f.requests = 1 /\ f.returned /\ gw.store.write_ok) =>
                 /\ cache_collection'[key].timestamp = now
                 /\ cache_collection'[key].expires_at = now + CACHE_EXPIRY_MINUTES
                 /\ cache_collection'[key].data.symbol = key
                 /\ \A k \in DOMAIN cache_collection' \ {key} :
                      /\ k \in DOMAIN cache_collection
                      /\ cache_collection'[k] = cache_collection[k]
            /\ \A k \in DOMAIN cache_collection' : cache_collection'[k].symbol = k

\* C15: a cache entry is returned only while now < expires_at; a current
\* quote asked for at or after expires_at goes to the upstream provider; the
\* cache holds one entry per symbol key, which a refresh overwrites.
C15_CacheExpiry == [][C15_Step]_vars

\* 'bitcoin' was asked for at 0 and again at the expires_at of the entry the
\* first call wrote: the second call went upstream and wrote the entry anew.
C15_Witness ==
    /\ Len(gw.log) = 2
    /\ gw.phase = "idle"
    /\ gw.log[1].symbol = BTC
    /\ gw.log[2].symbol = BTC
    /\ gw.log[1].days = 1
    /\ gw.log[2].days = 1
    /\ StoreWorked(gw.log[1])
    /\ StoreWorked(gw.log[2])
    /\ gw.log[1].returned
    /\ gw.log[1].requests = 1
    /\ gw.log[2].started = gw.log[1].finished + CACHE_EXPIRY_MINUTES
    /\ gw.log[2].requests = 1
    /\ gw.log[2].returned
    /\ cache_collection[BTC].expires_at =
           gw.log[2].started + CACHE_EXPIRY_MINUTES

C16_Step ==
    (IsFetchStep /\ gw.days > 1) =>
        /\ FetchMade.answer # "cache"
        /\ FetchMade.requests = 1
        /\ cache_collection' = cache_collection

\* C16: a historical request (days > 1) bypasses the cache: no fetch of it
\* is answered from a cache entry, each goes to its provider, and the cache
\* collection is left as it was, whatever the symbol and the outcome.
C16_HistoricalBypassesCache == [][C16_Step]_vars

\* The current quote of 'bitcoin' was cached; a historical request for it
\* inside the expiry window went to the provider, returned a series and left
\* the entry as the first call wrote it.
C16_Witness ==
    /\ Len(gw.log) = 2
    /\ gw.phase = "idle"
    /\ gw.log[1].symbol = BTC
    /\ gw.log[2].symbol = BTC
    /\ gw.log[1].days = 1
    /\ gw.log[2].days = 2
    /\ StoreWorked(gw.log[1])
    /\ StoreWorked(gw.log[2])
    /\ gw.log[1].returned
    /\ gw.log[2].started < gw.log[1].started + CACHE_EXPIRY_MINUTES
    /\ gw.log[2].requests = 1
    /\ gw.log[2].returned
    /\ "prices" \in DOMAIN gw.last.data
    /\ BTC \in DOMAIN cache_collection
    /\ cache_collection[BTC].timestamp = gw.log[1].started
    /\ "prices" \notin DOMAIN cache_collection[BTC].data

-----------------------------------------------------------------------------
(* Further claims on get_wallet_holdings, checked under SpecHoldings.      *)

\* The places in f.holdings of the holdings with quantity whose lookup
\* returned data.
HeldAndQuoted(f) ==
    {i \in DOMAIN f.holdings :
        /\ RGt(f.holdings[i].total_quantity, Zero)
        /\ f.quotes[i] # NoData
        /\ f.quotes[i] # NotAsked}

\* C17: the assets list get_wallet_holdings returns is in descending order
\* of current_value and holds exactly the holdings with total_quantity > 0
\* whose quote lookup returned data.
C17_AssetsSortedByValue ==
    \A p \in Procs :
        (HoldingsAnswered(p) /\ proc[p].result = "ok") =>
            LET f == proc[p]
                assets == f.response.assets
            IN  /\ \A j \in 1..(Len(assets) - 1) :
                     RGeq(assets[j].current_value, assets[j + 1].current_value)
                /\ Len(assets) = Cardinality(HeldAndQuoted(f))
                /\ \A i \in HeldAndQuoted(f) : \E j \in DOMAIN assets :
                     /\ assets[j].symbol = Upper(f.holdings[i].symbol)
                     /\ assets[j].total_quantity = f.holdings[i].total_quantity
                     /\ assets[j].current_value =
                            RMul(f.holdings[i].total_quantity,
                                 f.quotes[i].current_price)

\* Two holdings were priced and the one read first has the smaller value: it
\* comes second in the list returned.
C17_Witness ==
    /\ HoldingsAnswered(1)
    /\ proc[1].result = "ok"
    /\ Len(proc[1].response.assets) = 2
    /\ RGt(proc[1].response.assets[1].current_value,
           proc[1].response.assets[2].current_value)
    /\ proc[1].response.assets[2].symbol = Upper(proc[1].holdings[1].symbol)

\* a is one of assets.
IsAssetOf(a, assets) == \E j \in DOMAIN assets : assets[j] = a

\* C18: best_performer is an included asset with the greatest
\* profit_loss_percent and worst_performer one with the least; with no asset
\* included both are None, and the call returns all the same.
C18_BestAndWorstPerformer ==
    \A p \in Procs :
        HoldingsAnswered(p) =>
            LET f == proc[p]
                assets == f.response.assets
                best == f.response.summary.best_performer
                worst == f.response.summary.worst_performer
            IN  /\ f.result = "500" =>
                     (f.quotes = <<>> \/ Last(f.quotes) \notin {NoData, NotAsked})
                /\ f.result = "ok" =>
                     IF assets = <<>>
                     THEN best = NoAsset /\ worst = NoAsset
                     ELSE /\ IsAssetOf(best, assets)
                          /\ IsAssetOf(worst, assets)
                          /\ \A j \in DOMAIN assets :
                               /\ RLeq(assets[j].profit_loss_percent,
                                       best.profit_loss_percent)
                               /\ RGeq(assets[j].profit_loss_percent,
                                       worst.profit_loss_percent)

\* Two holdings were priced, the one read second with the better
\* percentage: it is best_performer and the other one worst_performer.
C18_Witness ==
    /\ HoldingsAnswered(1)
    /\ proc[1].result = "ok"
    /\ Len(proc[1].response.assets) = 2
    /\ proc[1].response.summary.best_performer.symbol =
           Upper(proc[1].holdings[2].symbol)
    /\ proc[1].response.summary.worst_performer.symbol =
           Upper(proc[1].holdings[1].symbol)
    /\ RGt(proc[1].response.summary.best_performer.profit_loss_percent,
           proc[1].response.summary.worst_performer.profit_loss_percent)


-----------------------------------------------------------------------------
(* A write handler and get_wallet_holdings at once: worker 1 serves          *)
(* POST /transactions and DELETE /transactions/{id}, worker 2 GET /holdings. *)

\* The bodies of the writes a holdings read runs beside: one symbol.
ReaderBodies == { b \in WalletBodies : b.symbol = BTC }

NextReaders ==
    \/ AddStart(1, ReaderBodies)
    \/ Handle(1)
    \/ HoldingsStart(2)
    \/ HoldingsFind(2)
    \/ HoldingsLoop(2)
    \/ HoldingsReturn(2)

SpecReaders == Init /\ [][NextReaders]_vars

-----------------------------------------------------------------------------
(* Claims on readers of wallet_holdings, checked under SpecReaders.        *)

\* The fields of a Holding that the replay decides; NoDoc when there is none.
ReplayFields(doc) ==
    IF doc = NoDoc THEN NoDoc ELSE [f \in HoldingFields |-> doc[f]]

\* doc carries the totals of the replay of the first n of txs.
HasTotalsOfPrefix(doc, txs, n) ==
    LET st == ReplayPrefix(txs, n)
    IN  /\ doc # NoDoc
        /\ doc.total_quantity = st.total_quantity
        /\ doc.total_invested = st.total_invested
        /\ doc.average_buy_price = AverageBuyPrice(st)

\* doc is what the recompute of txs leaves: nothing for an empty list, else
\* the totals of the replay of all of txs.
IsWholeReplay(doc, txs) ==
    IF txs = <<>> THEN doc = NoDoc ELSE HasTotalsOfPrefix(doc, txs, Len(txs))

\* p has read the transactions of key and not yet written its Holding.
Recomputing(p, key) ==
    /\ proc[p].pc = "write"
    /\ Lower(proc[p].symbol) = key

\* The step is the find({}) of a holdings read.
IsHoldingsFind(p) ==
    /\ proc[p].pc = "view_find"
    /\ proc'[p].pc = "view_loop"

\* C19: a holdings read sees of a symbol the Holding as stored, and what is
\* stored only ever changes from the Holding before a recompute to the one
\* with the result of the whole replay: no totals of a prefix are visible.
C19_Step ==
    /\ \A p \in Procs :
         IsHoldingsFind(p) =>
            /\ \A i \in DOMAIN proc'[p].holdings :
                 proc'[p].holdings[i] = wallet_holdings[proc'[p].holdings[i].symbol]
            /\ \A key \in HoldingKeys :
                 wallet_holdings[key] # NoDoc =>
                    \E i \in DOMAIN proc'[p].holdings :
                        proc'[p].holdings[i].symbol = key
    /\ \A key \in HoldingKeys :
         ReplayFields(wallet_holdings'[key]) # ReplayFields(wallet_holdings[key]) =>
            \E p \in Procs :
                /\ Recomputing(p, key)
                /\ IsWholeReplay(wallet_holdings'[key], proc[p].transactions)

C19_ReadersSeeWholeReplays == [][C19_Step]_vars

\* A holdings read has found the Holding of one buy while a recompute that
\* read two transactions of the symbol has not written yet.
C19_Witness ==
    \E key \in HoldingKeys :
        /\ Recomputing(1, key)
        /\ Len(proc[1].transactions) = 2
        /\ proc[2].pc = "view_loop"
        /\ \E i \in DOMAIN proc[2].holdings :
             /\ proc[2].holdings[i].symbol = key
             /\ HasTotalsOfPrefix(proc[2].holdings[i],
                                  proc[1].transactions, 1)
             /\ ~IsWholeReplay(proc[2].holdings[i],
                               proc[1].transactions)

-----------------------------------------------------------------------------
(* update_wallet_holdings called again and again for one symbol, on a        *)
(* transaction set that does not change.                                     *)

MaxRuns == 2

\* The stored transactions of the symbol: up to two, in insertion order.
TwiceBodies ==
    { [b EXCEPT !.asset_type = ty] :
        b \in { w \in WalletBodies : w.symbol = BTC }, ty \in {"crypto", "stock"} }
TwiceLists ==
    { <<>> } \cup
    { <<TxDoc(1, a)>> : a \in TwiceBodies } \cup
    { <<TxDoc(1, a), TxDoc(2, b)>> : a, b \in TwiceBodies }

\* The transaction and the Holding of another symbol.
OtherTransactions == <<TxDoc(3, ViewBody(ETH, "buy", 2, 10, 1))>>

InitTwice ==
    /\ \E txs \in TwiceLists :
         /\ wallet_transactions = txs \o OtherTransactions
         /\ \E before \in {0, Len(txs)} :
              wallet_holdings =
                  [k \in HoldingKeys |->
                      IF k = ETH THEN RecomputedHolding(k, OtherTransactions)
                      ELSE IF k = BTC
                           THEN RecomputedHolding(k, SubSeq(txs, 1, before))
                           ELSE NoDoc]
    /\ cache_collection = <<>>
    /\ prices_collection = <<>>
    /\ now = 0
    /\ next_id = 4
    /\ \E symbol \in {BTC, Upper(BTC)} :
         proc = [p \in Procs |->
                   IF p = 1
                   THEN [pc |-> "between", op |-> "recompute",
                         symbol |-> symbol, runs |-> <<>>]
                   ELSE [pc |-> "off"]]
    /\ replay = IdleReplay
    /\ gw = IdleGateway

\* The call is over: how it ended and the Holding it leaves.
RunOver(f, store, holdings) ==
    [pc |-> "between", op |-> "recompute", symbol |-> f.symbol,
     runs |-> Append(f.runs, [store |-> store,
                              holding |-> holdings[Lower(f.symbol)]])]

\* await update_wallet_holdings(symbol)
TwiceCall(p) ==
    /\ proc[p].pc = "between"
    /\ Len(proc[p].runs) < MaxRuns
    /\ proc' = [proc EXCEPT ![p] = [@ EXCEPT !.pc = "find"]]
    /\ UNCHANGED <<wallet_transactions, wallet_holdings, cache_collection,
                   prices_collection, now, next_id, replay, gw>>

\* transactions = list(find({"symbol": symbol.lower()}).sort("date", 1))
TwiceFind(p) ==
    /\ proc[p].pc = "find"
    /\ proc[p].op = "recompute"
    /\ \/ \E txs \in SortedReads(wallet_transactions, Lower(proc[p].symbol)) :
            proc' = [proc EXCEPT ![p] =
                        [pc |-> "write", op |-> "recompute",
                         symbol |-> proc[p].symbol, runs |-> proc[p].runs,
                         transactions |-> txs]]
       \/ proc' = [proc EXCEPT ![p] = RunOver(proc[p], "raised", wallet_holdings)]
    /\ UNCHANGED <<wallet_transactions, wallet_holdings, cache_collection,
                   prices_collection, now, next_id, replay, gw>>

\* if not transactions: db.delete_holding(symbol); return
TwiceDelete(p) ==
    /\ proc[p].pc = "write"
    /\ proc[p].op = "recompute"
    /\ proc[p].transactions = <<>>
    /\ \/ /\ wallet_holdings' = DeleteHolding(wallet_holdings, proc[p].symbol)
          /\ proc' = [proc EXCEPT ![p] =
                         RunOver(proc[p], "deleted", wallet_holdings')]
       \/ /\ wallet_holdings' = wallet_holdings
          /\ proc' = [proc EXCEPT ![p] =
                         RunOver(proc[p], "delete_failed", wallet_holdings)]
    /\ UNCHANGED <<wallet_transactions, cache_collection, prices_collection, now,
                   next_id, replay, gw>>

\* The loop, then db.update_holding(symbol, holding_doc).
TwiceUpsert(p) ==
    /\ proc[p].pc = "write"
    /\ proc[p].op = "recompute"
    /\ proc[p].transactions # <<>>
    /\ LET txs == proc[p].transactions
           holding_doc == HoldingDoc(proc[p].symbol, txs, ReplayPrefix(txs, Len(txs)))
       IN  \/ /\ wallet_holdings' =
                   UpdateHolding(wallet_holdings, proc[p].symbol, holding_doc)
              /\ proc' = [proc EXCEPT ![p] =
                             RunOver(proc[p], "upserted", wallet_holdings')]
           \/ /\ wallet_holdings' = wallet_holdings
              /\ proc' = [proc EXCEPT ![p] =
                             RunOver(proc[p], "raised", wallet_holdings)]
    /\ UNCHANGED <<wallet_transactions, cache_collection, prices_collection, now,
                   next_id, replay, gw>>

NextTwice ==
    \E p \in Procs :
        \/ TwiceCall(p)
        \/ TwiceFind(p)
        \/ TwiceDelete(p)
        \/ TwiceUpsert(p)

SpecTwice == InitTwice /\ [][NextTwice]_vars

-----------------------------------------------------------------------------
(* Claims on repeated recomputes, checked under SpecTwice.                 *)

\* The run wrote to wallet_holdings.
RunWrote(run) == run.store \in {"upserted", "deleted"}

\* C20: update_wallet_holdings run twice in a row on an unchanged
\* transaction set leaves the Holding the first run left: the same
\* total_quantity, average_buy_price, total_invested, asset_type and
\* first_purchase_date.
C20_RecomputeIdempotent ==
    \A p \in Procs :
        (proc[p].pc = "between" /\ proc[p].op = "recompute") =>
            \A i \in 1..(Len(proc[p].runs) - 1) :
                (RunWrote(proc[p].runs[i]) /\ RunWrote(proc[p].runs[i + 1])) =>
                    ReplayFields(proc[p].runs[i + 1].holding) =
                        ReplayFields(proc[p].runs[i].holding)

\* No two stored transactions of a symbol have the same date.
DatesDiffer ==
    \A i, j \in DOMAIN wallet_transactions :
        (/\ i # j
         /\ wallet_transactions[i].symbol = wallet_transactions[j].symbol)
            => wallet_transactions[i].date # wallet_transactions[j].date

\* The same with dates that leave the sort one order.
IdempotentWhenDatesDiffer == DatesDiffer => C20_RecomputeIdempotent

\* A run changes nothing but the Holding of its symbol.
RunFrame ==
    /\ wallet_transactions' = wallet_transactions
    /\ cache_collection' = cache_collection
    /\ prices_collection' = prices_collection
    /\ \A p \in Procs : \A key \in HoldingKeys :
         (proc[p].pc # "off" /\ key # Lower(proc[p].symbol)) =>
             wallet_holdings'[key] = wallet_holdings[key]

RunsKeepFrame == [][RunFrame]_vars


-----------------------------------------------------------------------------
(* get_asset_data called from anywhere, one call a step: symbols written    *)
(* with and without the market suffix, and every shape of provider answer.  *)

KNCR11 == <<"K","N","C","R","1","1">>

LookupSymbols ==
    {BTC, Upper(BTC), KNCR11_SA, KNCR11, Lower(KNCR11), PETR4_SA, AAPL}
LookupDays == {1, 2}

\* What a provider may answer: a series may be shorter or longer than the
\* days asked for.
LookupAnswers(provider, days) ==
    IF provider = "crypto"
    THEN IF days = 1
         THEN { [kind |-> "raise"], [kind |-> "absent"],
                [kind |-> "quote", usd |-> R(100), usd_24h_change |-> R(1)] }
         ELSE { [kind |-> "raise"],
                [kind |-> "chart", prices |-> <<>>],
                [kind |-> "chart", prices |-> <<<<3, R(120)>>>>],
                [kind |-> "chart", prices |-> <<<<1, R(100)>>, <<2, R(110)>>,
                                                <<3, R(120)>>>>] }
    ELSE IF days = 1
         THEN { [kind |-> "raise"],
                [kind |-> "hist", rows |-> <<[date |-> 1, close |-> R(100)]>>],
                [kind |-> "hist", rows |-> <<[date |-> 1, close |-> R(100)],
                                             [date |-> 2, close |-> R(110)]>>] }
         ELSE { [kind |-> "raise"],
                [kind |-> "hist", rows |-> <<>>],
                [kind |-> "hist", rows |-> <<[date |-> 3, close |-> R(120)]>>],
                [kind |-> "hist", rows |-> <<[date |-> 1, close |-> R(100)],
                                             [date |-> 2, close |-> R(110)],
                                             [date |-> 3, close |-> R(120)]>>] }

\* What the outside does during the attempts of one call of symbol.
LookupOracles(symbol, days) ==
    LET as == Attempts(symbol)
        all == UNION { LookupAnswers(pr, days) : pr \in {"crypto", "stock"} }
    IN  { [i \in DOMAIN as |->
             [read_ok |-> st.read_ok, write_ok |-> st.write_ok,
              upstream |-> ups[i]]] :
            st \in StoreModes,
            ups \in { u \in [DOMAIN as -> all] :
                        \A i \in DOMAIN as :
                            u[i] \in LookupAnswers(as[i].provider, days) } }

MaxLookups == 2

\* The calls made so far.
Calls(g) == IF g.phase = "looked" THEN g.calls ELSE 0

\* data = get_asset_data(symbol, days)
LookupCall ==
    /\ gw.phase \in {"idle", "looked"}
    /\ Calls(gw) < MaxLookups
    /\ \E symbol \in LookupSymbols, days \in LookupDays :
         \E os \in LookupOracles(symbol, days) :
            LET r == GetAssetData(symbol, days, cache_collection,
                                  prices_collection, now, os)
            IN  /\ cache_collection' = r.cache
                /\ prices_collection' = r.prices
                /\ gw' = [phase |-> "looked", symbol |-> symbol, days |-> days,
                          data |-> r.data, requests |-> r.requests,
                          calls |-> Calls(gw) + 1]
    /\ UNCHANGED <<wallet_transactions, wallet_holdings, now, next_id, proc,
                   replay>>

NextLookup == LookupCall

SpecLookup == InitGateway /\ [][NextLookup]_vars

-----------------------------------------------------------------------------
(* Claims on single calls of get_asset_data, checked under SpecLookup.     *)

Looked == gw.phase = "looked"

\* C21: one call of get_asset_data makes at most three provider requests,
\* whatever the symbol and whichever of them fail.
C21_AtMostThreeRequests == Looked => Len(gw.requests) <= 3

\* A call for a listed symbol asked its provider, then both providers of the
\* automatic attempts, and returned None.
C21_Witness ==
    /\ Looked
    /\ InCryptoList(gw.symbol)
    /\ Len(gw.requests) = 3
    /\ gw.data = NoData


-----------------------------------------------------------------------------
(* Further claims on the replay, checked under SpecReplay.                 *)

\* txs[1..k] without the sells that the replay meets as oversells.
RECURSIVE DropOversells(_, _)
DropOversells(txs, k) ==
    IF k = 0 THEN <<>>
    ELSE IF IsOversell(txs, k) THEN DropOversells(txs, k - 1)
         ELSE Append(DropOversells(txs, k - 1), txs[k])

\* The step taken is an iteration of the loop on an oversell.
IsOversellStep ==
    /\ replay.phase = "found"
    /\ replay'.phase = "found"
    /\ replay'.idx = replay.idx + 1
    /\ replay.transactions[replay.idx].transaction_type = "sell"
    /\ RLt(replay.total_quantity, replay.transactions[replay.idx].quantity)

C22_Step ==
    IsOversellStep =>
        /\ replay'.total_quantity = replay.total_quantity
        /\ replay'.total_invested = replay.total_invested
        /\ replay'.weighted_price_sum = replay.weighted_price_sum

\* The running totals are those of the transactions met so far with the
\* oversells taken out.
C22_AsIfAbsent ==
    (replay.phase # "idle" /\ replay.transactions # <<>>) =>
        LET kept == DropOversells(replay.transactions, replay.idx - 1)
        IN  ReplayTotals = ReplayPrefix(kept, Len(kept))

\* C22: an oversell changes none of the running quantity, invested capital
\* and cost-basis sum, and the replay goes on: what follows is applied as if
\* the oversell were not in the list.
C22_OversellLeavesState == []C22_AsIfAbsent /\ [][C22_Step]_vars

\* A buy, an oversell and another buy have been replayed and stored: the
\* Holding has the quantity of the two buys.
C22_Witness ==
    /\ ReplayUpserted
    /\ Len(replay.transactions) = 3
    /\ replay.transactions[1].transaction_type = "buy"
    /\ IsOversell(replay.transactions, 2)
    /\ replay.transactions[3].transaction_type = "buy"
    /\ ReplayHolding.total_quantity =
           RAdd(replay.transactions[1].quantity, replay.transactions[3].quantity)

\* C23: invested capital equals the cost-basis sum at every point of the
\* replay, and every persisted Holding with total_quantity > 0 has
\* total_invested = average_buy_price x total_quantity, also for buys whose
\* total_value is not quantity x price_per_unit.
C23_InvestedIsCostBasis ==
    /\ replay.phase # "idle" => replay.total_invested = replay.weighted_price_sum
    /\ ReplayUpserted =>
         (RGt(ReplayHolding.total_quantity, Zero) =>
             ReplayHolding.total_invested =
                 RMul(ReplayHolding.average_buy_price, ReplayHolding.total_quantity))

\* Every total_value of the list is quantity x price_per_unit.
ValuesAreProducts ==
    \A i \in DOMAIN replay.transactions :
        replay.transactions[i].total_value =
            RMul(replay.transactions[i].quantity,
                 replay.transactions[i].price_per_unit)

\* The same for lists whose total_value is the product throughout.
InvestedIsCostBasisOfProducts ==
    (replay.phase # "idle" /\ ValuesAreProducts) => C23_InvestedIsCostBasis


-----------------------------------------------------------------------------
(* Further claims on single calls of get_asset_data, under SpecLookup.     *)

\* The call sent a request to the provider.
Asked(provider) == \E i \in DOMAIN gw.requests : gw.requests[i][1] = provider

\* The call returned data tagged with one of types.
ReturnedTagged(types) ==
    /\ gw.data \notin {NoData, Raised}
    /\ gw.data.asset_type \in types

\* C24: for a symbol of the crypto list get_asset_data never asks the
\* stock/fund provider and never returns data tagged stock or fii; for a
\* symbol of the fund or equity list it never asks the crypto provider and
\* never returns data tagged cryptocurrency, also when the first attempt
\* fails.
C24_RoutesNeverCross ==
    Looked =>
        /\ InCryptoList(gw.symbol) =>
              /\ ~Asked("yfinance")
              /\ ~ReturnedTagged({"stock", "fii"})
        /\ (InFiiList(gw.symbol) \/ InStockList(gw.symbol)) =>
              /\ ~Asked("coingecko")
              /\ ~ReturnedTagged({"cryptocurrency"})


\* The country-market suffix.
DotSA == <<".","S","A">>

\* The uppercase symbol ends in the numeral of funds and has no suffix.
IsBareFund(symbol) ==
    /\ EndsWith(Upper(symbol), <<"1","1">>)
    /\ ~EndsWith(Upper(symbol), DotSA)

\* C26: a symbol whose uppercase form ends in the fund numeral and lacks the
\* market suffix ('KNCR11', 'kncr11') gets the suffix appended, and is then
\* found in the fund list, classified as a fund and sent to the provider in
\* the suffixed form.
C26_FundSymbolNormalized ==
    (Looked /\ IsBareFund(gw.symbol)) =>
        /\ \A i \in DOMAIN gw.requests :
             /\ gw.requests[i][1] = "yfinance"
             /\ gw.requests[i][2] = Upper(gw.symbol) \o DotSA
        /\ gw.data \notin {NoData, Raised} => gw.data.asset_type = "fii"


-----------------------------------------------------------------------------
(* Claims on the order of the replay, checked under SpecTwice.             *)

\* txs is in ascending date order, equal dates in insertion order (_id is
\* given in insertion order).
InInsertionOrder(txs) ==
    \A i, j \in DOMAIN txs :
        i < j => \/ txs[i].date < txs[j].date
                 \/ /\ txs[i].date = txs[j].date
                    /\ txs[i]._id < txs[j]._id

\* The stored transactions of key in that order.
OrderedTransactions(key) ==
    CHOOSE txs \in SortedReads(wallet_transactions, key) : InInsertionOrder(txs)

\* C25: the transactions of a symbol are replayed in ascending date order
\* and those of equal date in insertion order, so every run over the same
\* stored transactions leaves the same Holding: the one of that order.
C25_TiesInInsertionOrder ==
    \A p \in Procs :
        /\ (proc[p].pc = "write" /\ proc[p].op = "recompute") =>
              InInsertionOrder(proc[p].transactions)
        /\ (proc[p].pc = "between" /\ proc[p].op = "recompute") =>
              \A i \in DOMAIN proc[p].runs :
                  RunWrote(proc[p].runs[i]) =>
                      IsWholeReplay(proc[p].runs[i].holding,
                                    OrderedTransactions(Lower(proc[p].symbol)))


-----------------------------------------------------------------------------
(* Claims on historical series, checked under SpecLookup.                  *)

\* The call asked for history and returned a series.
ReturnedSeries ==
    /\ Looked
    /\ gw.days > 1
    /\ gw.data \notin {NoData, Raised}

\* C27: on the historical path (days > 1) the returned series, from either
\* provider, has at most days points, current_price is its last point, and
\* price_change_24h is the percent change between its last two points, or 0
\* when it has fewer than two.
C27_SeriesTruncatedToDays ==
    ReturnedSeries =>
        LET prices == gw.data.prices
            n == Len(prices)
        IN  /\ n <= gw.days
            /\ gw.data.current_price = prices[n][2]
            /\ gw.data.price_change_24h =
                   IF n >= 2 THEN PercentChange(prices[n][2], prices[n - 1][2])
                   ELSE Zero

\* The same for the series of the stock provider alone.
StockSeriesTruncatedToDays ==
    (ReturnedSeries /\ gw.data.asset_type # "cryptocurrency") =>
        C27_SeriesTruncatedToDays


\* The stored transactions of key with the earliest date.
Earliest(key) ==
    LET mine == TransactionsOf(wallet_transactions, key)
    IN  { mine[i] : i \in { j \in DOMAIN mine :
                              \A k \in DOMAIN mine : mine[j].date <= mine[k].date } }

\* C28: for a symbol with transactions the upserted Holding takes asset_type
\* and first_purchase_date from the transaction of the earliest date, buy or
\* sell, in whatever order the transactions were inserted.
C28_FromEarliestTransaction ==
    \A p \in Procs :
        (proc[p].pc = "between" /\ proc[p].op = "recompute") =>
            \A i \in DOMAIN proc[p].runs :
                proc[p].runs[i].store = "upserted" =>
                    \E tx \in Earliest(Lower(proc[p].symbol)) :
                        /\ proc[p].runs[i].holding.asset_type = tx.asset_type
                        /\ proc[p].runs[i].holding.first_purchase_date = tx.date

\* A run upserted the Holding of two transactions of which the one inserted
\* second is the earlier, a sell, and of another asset_type than the first.
C28_Witness ==
    /\ proc[1].pc = "between"
    /\ proc[1].op = "recompute"
    /\ Len(proc[1].runs) >= 1
    /\ proc[1].runs[1].store = "upserted"
    /\ LET mine == TransactionsOf(wallet_transactions, Lower(proc[1].symbol))
       IN  /\ Len(mine) = 2
           /\ mine[1]._id < mine[2]._id
           /\ mine[2].date < mine[1].date
           /\ mine[2].transaction_type = "sell"
           /\ mine[2].asset_type # mine[1].asset_type
           /\ proc[1].runs[1].holding.asset_type = mine[2].asset_type
           /\ proc[1].runs[1].holding.first_purchase_date = mine[2].date


-----------------------------------------------------------------------------
(* Claims on add_transaction, checked under SpecSequential.                *)

\* The step is the lookup of an add_transaction that ends the call.
IsLookupRefusal(p) ==
    /\ proc[p].pc = "add_lookup"
    /\ proc'[p].pc = "done"

\* The step inserts a transaction.
IsInsert == Len(wallet_transactions') > Len(wallet_transactions)

C29_Step ==
    /\ \A p \in Procs :
         IsLookupRefusal(p) =>
            /\ proc'[p].result = "404"
            /\ wallet_transactions' = wallet_transactions
            /\ wallet_holdings' = wallet_holdings
    /\ IsInsert =>
         \E p \in Procs :
            /\ proc[p].pc = "add_insert"
            /\ proc[p].asset_data # NoData

\* The call is before its insert_one only with the data of its lookup.
C29_InsertHasData ==
    \A p \in Procs : proc[p].pc = "add_insert" => proc[p].asset_data # NoData

\* C29: add_transaction inserts only after get_asset_data(symbol, 1)
\* returned data; when it returned none the call ends with 404 and the
\* transactions and all Holdings are as before the call.
C29_NoInsertWithoutAsset == []C29_InsertHasData /\ [][C29_Step]_vars

\* A call was answered 404 with a transaction and its Holding stored: both
\* are as the call before left them.
C29_Witness ==
    /\ proc[1].pc = "done"
    /\ proc[1].op = "add"
    /\ proc[1].result = "404"
    /\ Len(wallet_transactions) = 1
    /\ HoldingIsReplay(wallet_transactions[1].symbol)
    /\ wallet_holdings[wallet_transactions[1].symbol] # NoDoc


-----------------------------------------------------------------------------
(* Claims on the writes of get_wallet_holdings, checked under SpecHoldings. *)

\* The step is an iteration of the loop of p that priced the Holding of key.
PricesHolding(p, key) ==
    /\ proc[p].pc = "view_loop"
    /\ proc[p].idx <= Len(proc[p].holdings)
    /\ proc[p].holdings[proc[p].idx].symbol = key
    /\ proc'[p].pc = "view_loop"
    /\ Last(proc'[p].quotes) \notin {NoData, NotAsked}

C30_Step ==
    /\ wallet_transactions' = wallet_transactions
    /\ \A key \in HoldingKeys :
         /\ ReplayFields(wallet_holdings'[key]) = ReplayFields(wallet_holdings[key])
         /\ wallet_holdings'[key] # wallet_holdings[key] =>
              \E p \in Procs :
                 /\ PricesHolding(p, key)
                 /\ wallet_holdings'[key] =
                        [wallet_holdings[key] EXCEPT !.valuation =
                            Valuation(proc[p].holdings[proc[p].idx],
                                      Last(proc'[p].quotes))]

\* C30: get_wallet_holdings never changes the derived position of a Holding
\* (symbol, asset_type, total_quantity, average_buy_price, total_invested,
\* first_purchase_date), creates or deletes none and leaves the transactions
\* alone; it only writes the valuation fields of the holdings it priced.
C30_HoldingsReadKeepsPositions == [][C30_Step]_vars

\* A call has answered after pricing a Holding: the stored Holding carries
\* the valuation and still the position the recompute gave it.
C30_Witness ==
    /\ HoldingsAnswered(1)
    /\ proc[1].result = "ok"
    /\ \E key \in HoldingKeys :
         /\ wallet_holdings[key] # NoDoc
         /\ wallet_holdings[key].valuation # NoValue
         /\ ReplayFields(wallet_holdings[key]) =
                ReplayFields(RecomputedHolding(key,
                    TransactionsOf(wallet_transactions, key)))

=============================================================================
